---- MODULE Spec2Model ----
(***************************************************************************)
(* Model of p4utils/utils/runtime_API.py: the process-wide configuration   *)
(* registry (TABLES ... SUFFIX_LOOKUP_MAP), load_json_str, the suffix      *)
(* resolver get_res, and the RuntimeAPI commands with their error          *)
(* interception (handle_bad_input).                                        *)
(*                                                                         *)
(* A Python string is modelled as a sequence of tokens.  For resource      *)
(* names the tokens are the runs of characters between dots and the dot    *)
(* itself ("foo.bar" is <<"foo", ".", "bar">>); for literals and numeric     *)
(* arguments the tokens are the single characters, and the match-field     *)
(* separators "&&&" and "->" are one token each.                           *)
(***************************************************************************)
EXTENDS Integers, Sequences, FiniteSets, TLC

VARIABLES
  TABLES, ACTION_PROFS, ACTIONS_, METER_ARRAYS, COUNTER_ARRAYS,
  REGISTER_ARRAYS, CUSTOM_CRC_CALCS, SUFFIX_LOOKUP_MAP,
  json_,        \* the document handed to the last load_json_str
  load_err,     \* how the last load_json_str ended: "none", "ok" or the exception
  dropped,      \* whether the last load_json_str started from a registry holding
                \* a suffix key that its document does not declare
  pre_type,     \* the packet replication engine the session was built with
  cmd,          \* the command invocation being reported: name, arguments and
                \* the remote side's answer; name "none" at the prompt
  calls,        \* the remote operations the last command issued, in order
  printed,      \* the user-facing error messages the last command reported
  raised,       \* the exception that left the last command, "none" if it returned
  ret,          \* the value the last command returned
  ports,        \* the argument of the last ports_to_port_map_str
  port_map,     \* its outcome
  literal,      \* the string handed to the codec
  bit_width,    \* the bit width it is to be encoded at
  field_type,   \* the match type it is to be encoded for as a key field
  encoded,      \* the outcome of parse_param(literal, bit_width)
  encoded_key,  \* the outcome of parse_match_key on literal as the one field
  text,         \* the string handed to a conversion of the command line
  converted,    \* the conversion applied to it and its outcome
  restored,     \* the outcome of the inverse conversion on that outcome
  load_pc,      \* how far a load_json_str that runs beside the commands has
                \* come: "idle" when none is running
  prev_json,    \* the document of the load before the last
  seen,         \* the last lookup: its key, what it returned and the state
                \* of the load it ran beside
  dev_running,  \* the configuration the device is running
  dev_staged    \* the configuration the device has been given and has not
                \* swapped in, if any

vars == <<TABLES, ACTION_PROFS, ACTIONS_, METER_ARRAYS, COUNTER_ARRAYS,
          REGISTER_ARRAYS, CUSTOM_CRC_CALCS, SUFFIX_LOOKUP_MAP,
          json_, load_err, dropped, pre_type, cmd, calls, printed, raised,
          ret, ports, port_map, literal, bit_width, field_type, encoded,
          encoded_key, text, converted, restored, load_pc, prev_json, seen,
          dev_running, dev_staged>>

devvars == <<dev_running, dev_staged>>

stepvars == <<load_pc, prev_json, seen>>

convvars == <<text, converted, restored>>

codecvars == <<literal, bit_width, field_type, encoded, encoded_key>>

sessvars == <<cmd, calls, printed, raised, ret>>

regvars == <<TABLES, ACTION_PROFS, ACTIONS_, METER_ARRAYS, COUNTER_ARRAYS,
             REGISTER_ARRAYS, CUSTOM_CRC_CALCS, SUFFIX_LOOKUP_MAP>>

----------------------------------------------------------------------------
(* Bounds *)

\* how many names of NamePool the loaded documents draw on
MaxNames == 7

\* the longest port list handed to ports_to_port_map_str
MaxPorts == 3

----------------------------------------------------------------------------
(* Python dictionaries and lists *)

EmptyMap == [x \in {} |-> 0]

Put(d, k, v) == (k :> v) @@ d

Del(d, k) == [x \in (DOMAIN d) \ {k} |-> d[x]]

RECURSIVE SetToSeq(_)
SetToSeq(S) ==
  IF S = {} THEN <<>>
  ELSE LET x == CHOOSE y \in S : TRUE IN <<x>> \o SetToSeq(S \ {x})

Range(s) == {s[i] : i \in 1..Len(s)}

----------------------------------------------------------------------------
(* ResType (line 66) and the other enumerations *)

ResType == <<"table", "action_prof", "action", "meter_array",
             "counter_array", "register_array">>

MatchType == {"exact", "lpm", "ternary", "valid", "range"}

TableType == {"simple", "indirect", "indirect_ws"}

----------------------------------------------------------------------------
(* Names: str.split('.') and the suffix candidates of lines 356-359 *)

\* s.split(sep): the pieces between the separators, empty pieces included
RECURSIVE split(_, _)
split(s, sep) ==
  IF \A i \in 1..Len(s) : s[i] # sep
  THEN <<s>>
  ELSE LET i == CHOOSE j \in 1..Len(s) :
                  s[j] = sep /\ \A k \in 1..(j-1) : s[k] # sep
       IN <<SubSeq(s, 1, i-1)>> \o split(SubSeq(s, i+1, Len(s)), sep)

\* name.split('.')
split_dot(name) == split(name, ".")

\* the loop "for s in reversed(name.split('.')): suffix = s if suffix is None
\* else s + '.' + suffix", returning the suffixes in the order it builds them
RECURSIVE suffix_loop(_, _, _)
suffix_loop(segs, i, suffix) ==
  IF i = 0 THEN <<>>
  ELSE LET next == IF i = Len(segs) THEN segs[i]
                   ELSE segs[i] \o <<".">> \o suffix
       IN <<next>> \o suffix_loop(segs, i-1, next)

name_suffixes(name) ==
  LET segs == split_dot(name) IN suffix_loop(segs, Len(segs), <<>>)

----------------------------------------------------------------------------
(* The registry as one value: the eight module-level dictionaries *)

Registry(T, AP, A, M, C, R, X, S) ==
  [TABLES |-> T, ACTION_PROFS |-> AP, ACTIONS_ |-> A, METER_ARRAYS |-> M,
   COUNTER_ARRAYS |-> C, REGISTER_ARRAYS |-> R, CUSTOM_CRC_CALCS |-> X,
   SUFFIX_LOOKUP_MAP |-> S]

CurrentRegistry ==
  Registry(TABLES, ACTION_PROFS, ACTIONS_, METER_ARRAYS, COUNTER_ARRAYS,
           REGISTER_ARRAYS, CUSTOM_CRC_CALCS, SUFFIX_LOOKUP_MAP)

\* the dictionary of each resource kind, as paired in lines 350-354
res_dict(reg, res_type) ==
  CASE res_type = "table" -> reg.TABLES
    [] res_type = "action_prof" -> reg.ACTION_PROFS
    [] res_type = "action" -> reg.ACTIONS_
    [] res_type = "meter_array" -> reg.METER_ARRAYS
    [] res_type = "counter_array" -> reg.COUNTER_ARRAYS
    [] res_type = "register_array" -> reg.REGISTER_ARRAYS

\* a mutant of reset_config: the suffix index survives the reset
reset_config_keeps_index(reg) ==
  Registry(EmptyMap, EmptyMap, EmptyMap, EmptyMap, EmptyMap, EmptyMap,
           EmptyMap, reg.SUFFIX_LOOKUP_MAP)

reset_config(reg) ==
  Registry(EmptyMap, EmptyMap, EmptyMap, EmptyMap, EmptyMap, EmptyMap,
           EmptyMap, EmptyMap)

----------------------------------------------------------------------------
(* The constructors, each registering the new object under its name *)

Table(name, id_) ==
  [name |-> name, id_ |-> id_, match_type |-> "None", actions |-> {},
   key |-> <<>>, default_action |-> "None", type_ |-> "None",
   support_timeout |-> FALSE, action_prof |-> 0]

\* oid tells two ActionProf objects of the same name apart
ActionProf(name, id_, oid) ==
  [name |-> name, id_ |-> id_, with_selection |-> FALSE, actions |-> {},
   ref_cnt |-> 0, oid |-> oid]

Action(name, id_) == [name |-> name, id_ |-> id_, runtime_data |-> <<>>]

MeterArray(name, id_) ==
  [name |-> name, id_ |-> id_, type_ |-> "None", is_direct |-> FALSE,
   size |-> -1, binding |-> <<>>, rate_count |-> -1]

CounterArray(name, id_) ==
  [name |-> name, id_ |-> id_, is_direct |-> FALSE, size |-> -1,
   binding |-> <<>>]

RegisterArray(name, id_) ==
  [name |-> name, id_ |-> id_, width |-> -1, size |-> -1]

----------------------------------------------------------------------------
(* load_json_str, lines 241-364.  A load in progress is the registry built   *)
(* so far, the exception that stopped it ("ok" while none has) and the       *)
(* number of ActionProf objects constructed.                                 *)

\* lines 242-246
get_header_type(header_name, j_headers) ==
  IF \E i \in 1..Len(j_headers) : j_headers[i].name = header_name
  THEN LET i == CHOOSE k \in 1..Len(j_headers) :
                  /\ j_headers[k].name = header_name
                  /\ \A m \in 1..(k-1) : j_headers[m].name # header_name
       IN [err |-> "ok", val |-> j_headers[i].header_type]
  ELSE [err |-> "AssertionError", val |-> "None"]

\* lines 248-256: the first (header type, field) pair in document order
get_field_bitwidth(header_type, field_name, j_header_types) ==
  LET all == UNION {{<<i, k>> : k \in 1..Len(j_header_types[i].fields)} :
                      i \in 1..Len(j_header_types)}
      hits == {x \in all :
                 /\ j_header_types[x[1]].name = header_type
                 /\ j_header_types[x[1]].fields[x[2]][1] = field_name}
  IN IF hits = {} THEN [err |-> "AssertionError", val |-> -1]
     ELSE LET h == CHOOSE x \in hits : \A y \in hits :
                     x[1] < y[1] \/ (x[1] = y[1] /\ x[2] <= y[2])
          IN [err |-> "ok", val |-> j_header_types[h[1]].fields[h[2]][2]]

\* lines 264-267
RECURSIVE load_actions(_, _, _)
load_actions(st, j_actions, i) ==
  IF i > Len(j_actions) \/ st.err # "ok" THEN st
  ELSE LET j_action == j_actions[i]
           action == [Action(j_action.name, j_action.id) EXCEPT
                        !.runtime_data =
                          [k \in 1..Len(j_action.runtime_data) |->
                             <<j_action.runtime_data[k].name,
                               j_action.runtime_data[k].bitwidth>>]]
       IN load_actions(
            [st EXCEPT !.reg.ACTIONS_ = Put(@, j_action.name, action)],
            j_actions, i + 1)

\* lines 270-273
RECURSIVE load_action_profiles(_, _, _)
load_action_profiles(st, j_aprofs, i) ==
  IF i > Len(j_aprofs) \/ st.err # "ok" THEN st
  ELSE LET j_aprof == j_aprofs[i]
           action_prof == [ActionProf(j_aprof.name, j_aprof.id, st.noid + 1)
                             EXCEPT !.with_selection = j_aprof.has_selector]
       IN load_action_profiles(
            [st EXCEPT !.reg.ACTION_PROFS = Put(@, j_aprof.name, action_prof),
                       !.noid = @ + 1],
            j_aprofs, i + 1)

\* lines 280-281: table.actions[action] = ACTIONS[action], a KeyError on the
\* first undeclared name
RECURSIVE table_actions(_, _, _, _)
table_actions(acc, names, i, A) ==
  IF i > Len(names) THEN [err |-> "ok", actions |-> acc]
  ELSE IF names[i] \notin DOMAIN A THEN [err |-> "KeyError", actions |-> acc]
  ELSE table_actions(acc \cup {names[i]}, names, i + 1, A)

\* lines 295-310: the key fields resolved so far and the error that stopped it
RECURSIVE table_key(_, _, _, _)
table_key(acc, j_keys, i, json) ==
  IF i > Len(j_keys) THEN [err |-> "ok", key |-> acc]
  ELSE
    LET target == j_keys[i].target
        match_type == j_keys[i].match_type
    IN IF match_type = "valid"
       THEN table_key(Append(acc, <<target \o <<"_valid">>, match_type, 1>>),
                      j_keys, i + 1, json)
       ELSE IF target[2] = "$valid$"
       THEN table_key(Append(acc, <<<<target[1], "_valid">>, match_type, 1>>),
                      j_keys, i + 1, json)
       ELSE
         LET ht == get_header_type(target[1], json.headers)
             bw == get_field_bitwidth(ht.val, target[2], json.header_types)
         IN IF ht.err # "ok" THEN [err |-> ht.err, key |-> acc]
            ELSE IF bw.err # "ok" THEN [err |-> bw.err, key |-> acc]
            ELSE table_key(
                   Append(acc, <<<<target[1], ".", target[2]>>, match_type,
                                 bw.val>>),
                   j_keys, i + 1, json)

\* lines 276-310, one table of a pipeline.  The Table object is in TABLES from
\* its construction on, so an error leaves it there as far as it was filled.
load_table(st, j_table, json) ==
  LET t1 == [Table(j_table.name, j_table.id) EXCEPT
               !.match_type = j_table.match_type,
               !.type_ = j_table.type,
               !.support_timeout = j_table.support_timeout]
      indirect == j_table.type \in {"indirect", "indirect_ws"}
      \* lines 284-290: the profile the table binds to
      ap_err == IF ~indirect THEN "ok"
                ELSE IF j_table.has_action_profile
                THEN IF j_table.action_profile \in DOMAIN st.reg.ACTION_PROFS
                     THEN "ok" ELSE "KeyError"
                ELSE IF j_table.has_act_prof_name THEN "ok"
                     ELSE "AssertionError"
      legacy == indirect /\ ~j_table.has_action_profile
      ap_name == IF j_table.has_action_profile THEN j_table.action_profile
                 ELSE j_table.act_prof_name
      \* lines 291-310 once the profile ap0 is at hand
      bound(t2, ap0, keys) ==
        [st EXCEPT
           !.reg.TABLES = Put(@, t2.name, [t2 EXCEPT !.action_prof = ap0.oid,
                                                     !.key = keys.key]),
           !.reg.ACTION_PROFS =
             Put(@, ap_name, [ap0 EXCEPT !.actions = @ \cup t2.actions,
                                         !.ref_cnt = @ + 1]),
           !.noid = IF legacy THEN @ + 1 ELSE @,
           !.err = keys.err]
      filled(t2, acts_err, keys) ==
        IF acts_err # "ok"
        THEN [st EXCEPT !.reg.TABLES = Put(@, t2.name, t2), !.err = acts_err]
        ELSE IF ap_err # "ok"
        THEN [st EXCEPT !.reg.TABLES = Put(@, t2.name, t2), !.err = ap_err]
        ELSE IF indirect
        THEN bound(t2,
                   IF legacy
                   THEN [ActionProf(ap_name, t2.id_, st.noid + 1) EXCEPT
                           !.with_selection = j_table.has_selector]
                   ELSE st.reg.ACTION_PROFS[ap_name],
                   keys)
        ELSE [st EXCEPT !.reg.TABLES = Put(@, t2.name,
                                           [t2 EXCEPT !.key = keys.key]),
                        !.err = keys.err]
      \* lines 279-281
      with_actions(acts) ==
        filled([t1 EXCEPT !.actions = acts.actions], acts.err,
               table_key(<<>>, j_table.key, 1, json))
  IN with_actions(table_actions({}, j_table.actions, 1, st.reg.ACTIONS_))

RECURSIVE load_tables(_, _, _, _)
load_tables(st, j_tables, i, json) ==
  IF i > Len(j_tables) \/ st.err # "ok" THEN st
  ELSE load_tables(load_table(st, j_tables[i], json), j_tables, i + 1, json)

\* lines 269-310
RECURSIVE load_pipelines(_, _, _, _)
load_pipelines(st, j_pipelines, i, json) ==
  IF i > Len(j_pipelines) \/ st.err # "ok" THEN st
  ELSE LET j_pipeline == j_pipelines[i]
       IN load_pipelines(
            load_tables(
              IF j_pipeline.has_action_profiles
              THEN load_action_profiles(st, j_pipeline.action_profiles, 1)
              ELSE st,
              j_pipeline.tables, 1, json),
            j_pipelines, i + 1, json)

\* lines 312-321
RECURSIVE load_meters(_, _, _)
load_meters(st, j_meters, i) ==
  IF i > Len(j_meters) \/ st.err # "ok" THEN st
  ELSE LET j_meter == j_meters[i]
           m0 == MeterArray(j_meter.name, j_meter.id)
           m1 == IF j_meter.has_is_direct /\ j_meter.is_direct
                 THEN [m0 EXCEPT !.is_direct = TRUE,
                                 !.binding = j_meter.binding]
                 ELSE [m0 EXCEPT !.is_direct = FALSE, !.size = j_meter.size]
           m2 == [m1 EXCEPT !.type_ = j_meter.type,
                            !.rate_count = j_meter.rate_count]
       IN load_meters([st EXCEPT !.reg.METER_ARRAYS = Put(@, m2.name, m2)],
                      j_meters, i + 1)

\* lines 323-329
RECURSIVE load_counters(_, _, _)
load_counters(st, j_counters, i) ==
  IF i > Len(j_counters) \/ st.err # "ok" THEN st
  ELSE LET j_counter == j_counters[i]
           c0 == [CounterArray(j_counter.name, j_counter.id) EXCEPT
                    !.is_direct = j_counter.is_direct]
           c1 == IF c0.is_direct
                 THEN [c0 EXCEPT !.binding = j_counter.binding]
                 ELSE [c0 EXCEPT !.size = j_counter.size]
       IN load_counters([st EXCEPT !.reg.COUNTER_ARRAYS = Put(@, c1.name, c1)],
                        j_counters, i + 1)

\* lines 331-334
RECURSIVE load_registers(_, _, _)
load_registers(st, j_registers, i) ==
  IF i > Len(j_registers) \/ st.err # "ok" THEN st
  ELSE LET j_register == j_registers[i]
           r == [RegisterArray(j_register.name, j_register.id) EXCEPT
                   !.size = j_register.size, !.width = j_register.bitwidth]
       IN load_registers(
            [st EXCEPT !.reg.REGISTER_ARRAYS = Put(@, r.name, r)],
            j_registers, i + 1)

\* lines 336-341
RECURSIVE load_calcs(_, _, _)
load_calcs(st, j_calcs, i) ==
  IF i > Len(j_calcs) \/ st.err # "ok" THEN st
  ELSE LET j_calc == j_calcs[i]
           X == st.reg.CUSTOM_CRC_CALCS
           X1 == IF j_calc.algo = "crc16_custom" THEN Put(X, j_calc.name, 16)
                 ELSE IF j_calc.algo = "crc32_custom"
                 THEN Put(X, j_calc.name, 32)
                 ELSE X
       IN load_calcs([st EXCEPT !.reg.CUSTOM_CRC_CALCS = X1], j_calcs, i + 1)

----------------------------------------------------------------------------
(* The suffix index, lines 349-364.  An index under construction is the map  *)
(* and the Counter suffix_count; a resource is recorded by its full name,    *)
(* which is its key in the dictionary of its kind.                           *)

\* lines 357-361, the suffixes of one resource
RECURSIVE index_suffixes(_, _, _, _, _)
index_suffixes(ix, res_type, name, sufs, i) ==
  IF i > Len(sufs) THEN ix
  ELSE LET key == <<res_type, sufs[i]>>
           c == IF key \in DOMAIN ix.suffix_count THEN ix.suffix_count[key]
                ELSE 0
       IN index_suffixes(
            [map |-> Put(ix.map, key, name),
             suffix_count |-> Put(ix.suffix_count, key, c + 1)],
            res_type, name, sufs, i + 1)

\* line 355, the resources of one kind
RECURSIVE index_names(_, _, _, _)
index_names(ix, res_type, names, i) ==
  IF i > Len(names) THEN ix
  ELSE index_names(
         index_suffixes(ix, res_type, names[i], name_suffixes(names[i]), 1),
         res_type, names, i + 1)

\* lines 350-354, the six kinds in order
RECURSIVE index_kinds(_, _, _)
index_kinds(ix, reg, i) ==
  IF i > Len(ResType) THEN ix
  ELSE index_kinds(
         index_names(ix, ResType[i],
                     SetToSeq(DOMAIN res_dict(reg, ResType[i])), 1),
         reg, i + 1)

\* a mutant of the pruning: an ambiguous suffix keeps the last resource seen
prune_keeps_ambiguous(ix) == ix.map

\* lines 362-364
prune(ix) ==
  [key \in {k \in DOMAIN ix.map : ~(ix.suffix_count[k] > 1)} |-> ix.map[key]]

\* lines 349-364 on a populated registry
build_suffix_index(reg) ==
  [reg EXCEPT !.SUFFIX_LOOKUP_MAP =
     prune(index_kinds([map |-> reg.SUFFIX_LOOKUP_MAP,
                        suffix_count |-> EmptyMap], reg, 1))]

\* lines 276-341: the resources of the document entered into the
\* dictionaries, up to the first exception
load_resources(s0, json) ==
  load_calcs(
    load_registers(
      load_counters(
        load_meters(
          load_pipelines(load_actions(s0, json.actions, 1),
                         json.pipelines, 1, json),
          json.meter_arrays, 1),
        json.counter_arrays, 1),
      json.register_arrays, 1),
    json.calculations, 1)

\* a mutant of load_json_str: the suffix index is not built
load_json_str_without_index(reg, json) ==
  LET s0 == [reg |-> reset_config(reg), err |-> "ok", noid |-> 0]
      loaded(st) == [reg |-> st.reg, err |-> st.err]
  IN IF ~json.json_ok THEN [reg |-> s0.reg, err |-> "ValueError"]
     ELSE loaded(load_resources(s0, json))

\* lines 258-364: the registry load_json_str leaves behind and how it ended
load_json_str(reg, json) ==
  LET s0 == [reg |-> reset_config(reg), err |-> "ok", noid |-> 0]
      \* lines 349-364 run only if nothing was raised before them
      indexed(st) ==
        IF st.err # "ok" THEN [reg |-> st.reg, err |-> st.err]
        ELSE [reg |-> build_suffix_index(st.reg), err |-> "ok"]
  IN IF ~json.json_ok THEN [reg |-> s0.reg, err |-> "ValueError"]
     ELSE indexed(load_resources(s0, json))

\* line 764-768: the resource, or UIn_ResourceError
get_res(reg, name, res_type) ==
  LET key == <<res_type, name>>
  IN IF key \notin DOMAIN reg.SUFFIX_LOOKUP_MAP
     THEN [err |-> "UIn_ResourceError", res |-> <<>>]
     ELSE [err |-> "ok",
           res |-> res_dict(reg, res_type)[reg.SUFFIX_LOOKUP_MAP[key]]]

----------------------------------------------------------------------------
(* The documents the model loads.  A JSON object is a record; an optional    *)
(* key is a has_ flag beside its value; a JSON array is a sequence.          *)

\* resource names of the shapes the resolver tells apart: one segment,
\* several segments, a shared last segment, a name that is a suffix of another
NamePool ==
  <<<<"b">>, <<"a", ".", "b">>,
    <<"foo", ".", "bar", ".", "baz">>, <<"qux", ".", "bar", ".", "baz">>,
    <<"a">>, <<"b", ".", "a", ".", "b">>, <<"a", ".", "a">>,
    <<"bar", ".", "baz">>, <<"b", ".", "b">>>>

ExampleNames == {NamePool[3], NamePool[4]}

Names == {NamePool[i] : i \in {j \in 1..Len(NamePool) : j <= MaxNames}}

\* the resources of one kind in a document: at most two, of distinct names
NameSets == {{}} \cup {{n, m} : n \in Names, m \in Names}

JAction(name, id, bitwidths) ==
  [name |-> name, id |-> id,
   runtime_data |-> [k \in 1..Len(bitwidths) |->
                       [name |-> <<"p">>, bitwidth |-> bitwidths[k]]]]

JKey(match_type, target) == [match_type |-> match_type, target |-> target]

JTable(name, id, match_type, type, actions, key) ==
  [name |-> name, id |-> id, match_type |-> match_type, type |-> type,
   support_timeout |-> FALSE, actions |-> actions,
   has_action_profile |-> FALSE, action_profile |-> <<>>,
   has_act_prof_name |-> FALSE, act_prof_name |-> <<>>,
   has_selector |-> FALSE, key |-> key]

JActionProfile(name, id, has_selector) ==
  [name |-> name, id |-> id, has_selector |-> has_selector]

JPipeline(action_profiles, tables) ==
  [has_action_profiles |-> TRUE, action_profiles |-> action_profiles,
   tables |-> tables]

JMeter(name, id, is_direct, binding, rate_count) ==
  [name |-> name, id |-> id, has_is_direct |-> TRUE, is_direct |-> is_direct,
   binding |-> binding, size |-> 4, type |-> "packets",
   rate_count |-> rate_count]

JCounter(name, id, is_direct, binding) ==
  [name |-> name, id |-> id, is_direct |-> is_direct, binding |-> binding,
   size |-> 4]

JRegister(name, id) == [name |-> name, id |-> id, size |-> 4, bitwidth |-> 8]

EmptyDoc ==
  [json_ok |-> TRUE, actions |-> <<>>, pipelines |-> <<>>,
   meter_arrays |-> <<>>, counter_arrays |-> <<>>, register_arrays |-> <<>>,
   calculations |-> <<>>, headers |-> <<>>, header_types |-> <<>>]

\* a document whose resources of kind res_type are named by ns, beside one
\* resource of every other kind
NamedDoc(res_type, ns) ==
  LET of(k, base) == IF res_type = k THEN SetToSeq(ns) ELSE base
      actions == of("action", <<<<"b">>>>)
      tables == of("table", <<<<"b">>>>)
      aprofs == of("action_prof", <<<<"a">>>>)
      meters == of("meter_array", <<<<"a", ".", "b">>>>)
      counters == of("counter_array", <<<<"b">>>>)
      registers == of("register_array", <<<<"a">>>>)
  IN [EmptyDoc EXCEPT
        !.actions = [i \in 1..Len(actions) |-> JAction(actions[i], i, <<>>)],
        !.pipelines =
          <<JPipeline(
              [i \in 1..Len(aprofs) |-> JActionProfile(aprofs[i], i, FALSE)],
              [i \in 1..Len(tables) |->
                 JTable(tables[i], i, "exact", "simple", actions, <<>>)])>>,
        !.meter_arrays =
          [i \in 1..Len(meters) |-> JMeter(meters[i], i, FALSE, <<>>, 2)],
        !.counter_arrays =
          [i \in 1..Len(counters) |-> JCounter(counters[i], i, FALSE, <<>>)],
        !.register_arrays =
          [i \in 1..Len(registers) |-> JRegister(registers[i], i)]]

NamedDocs == {NamedDoc(k, ns) : k \in Range(ResType), ns \in NameSets}

\* text that json.loads rejects
BadJsonDoc == [EmptyDoc EXCEPT !.json_ok = FALSE]

BaseDoc == NamedDoc("none", {})

\* the second table lists an action the document does not declare
UndeclaredActionDoc ==
  [BaseDoc EXCEPT !.pipelines[1].tables =
     Append(@, JTable(<<"a", ".", "b">>, 2, "exact", "simple",
                      <<<<"b">>, <<"zz">>>>, <<>>))]

\* an indirect table names an action profile no pipeline declares
UndeclaredProfileDoc ==
  [BaseDoc EXCEPT !.pipelines[1].tables =
     Append(@, [JTable(<<"a", ".", "b">>, 2, "exact", "indirect",
                       <<<<"b">>>>, <<>>)
                  EXCEPT !.has_action_profile = TRUE,
                         !.action_profile = <<"zz">>])]

\* an indirect table with neither action_profile nor act_prof_name
NoProfileDoc ==
  [BaseDoc EXCEPT !.pipelines[1].tables =
     Append(@, JTable(<<"a", ".", "b">>, 2, "exact", "indirect",
                      <<<<"b">>>>, <<>>))]

\* a key field of a header the document does not declare
MissingHeaderDoc ==
  [BaseDoc EXCEPT !.pipelines[1].tables =
     Append(@, JTable(<<"a", ".", "b">>, 2, "exact", "simple", <<<<"b">>>>,
                      <<JKey("exact", <<"h", "f">>)>>))]

\* a key field its header type does not declare
MissingFieldDoc ==
  [MissingHeaderDoc EXCEPT
     !.headers = <<[name |-> "h", header_type |-> "h_t"]>>,
     !.header_types = <<[name |-> "h_t", fields |-> <<<<"g", 8>>>>]>>]

\* a consistent document with resolved, valid and legacy-profile tables
KeyedDoc ==
  [MissingFieldDoc EXCEPT
     !.header_types = <<[name |-> "h_t", fields |-> <<<<"g", 8>>, <<"f", 16>>>>]>>,
     !.pipelines[1].tables =
       @ \o <<JTable(<<"b", ".", "a">>, 3, "ternary", "simple", <<<<"b">>>>,
                     <<JKey("valid", <<"h">>), JKey("ternary", <<"h", "$valid$">>),
                       JKey("lpm", <<"h", "g">>)>>),
              [JTable(<<"a", ".", "a">>, 4, "exact", "indirect_ws",
                      <<<<"b">>>>, <<>>)
                 EXCEPT !.has_act_prof_name = TRUE,
                        !.act_prof_name = <<"b", ".", "a">>,
                        !.has_selector = TRUE],
              [JTable(<<"b", ".", "b">>, 5, "exact", "indirect",
                      <<<<"b">>>>, <<>>)
                 EXCEPT !.has_action_profile = TRUE,
                        !.action_profile = <<"a">>]>>,
     !.calculations = <<[name |-> <<"c1">>, algo |-> "crc16_custom"],
                        [name |-> <<"c2">>, algo |-> "crc32_custom"],
                        [name |-> <<"c3">>, algo |-> "crc16"]>>]

\* two actions, and two indirect tables of one action each
TwoIndirectDoc ==
  [BaseDoc EXCEPT
     !.actions = <<JAction(<<"b">>, 1, <<>>), JAction(<<"a">>, 2, <<>>)>>,
     !.pipelines[1].tables =
       @ \o <<JTable(<<"t1">>, 2, "exact", "indirect", <<<<"b">>>>, <<>>),
              JTable(<<"t2">>, 3, "exact", "indirect", <<<<"a">>>>, <<>>)>>]

\* both tables name the declared action profile a
SharedProfileDoc ==
  [TwoIndirectDoc EXCEPT
     !.pipelines[1].tables =
       [i \in 1..Len(@) |->
          IF i = 1 THEN @[i]
          ELSE [@[i] EXCEPT !.has_action_profile = TRUE,
                            !.action_profile = <<"a">>]]]

\* both tables name the action profile p the legacy way, by act_prof_name
SharedLegacyDoc ==
  [TwoIndirectDoc EXCEPT
     !.pipelines[1].tables =
       [i \in 1..Len(@) |->
          IF i = 1 THEN @[i]
          ELSE [@[i] EXCEPT !.has_act_prof_name = TRUE,
                            !.act_prof_name = <<"p">>]]]

FailingDocs == {BadJsonDoc, UndeclaredActionDoc, UndeclaredProfileDoc,
                NoProfileDoc, MissingHeaderDoc, MissingFieldDoc}

Docs ==
  NamedDocs \cup FailingDocs \cup {KeyedDoc, SharedProfileDoc, SharedLegacyDoc}

----------------------------------------------------------------------------
(* The loader alone: load_json_str applied to any document, from a registry  *)
(* left by any earlier load.                                                 *)

NoCmd == [name |-> "none", args |-> <<>>, remote |-> "ok"]

None == [some |-> FALSE, val |-> 0]

AtPrompt ==
  /\ cmd = NoCmd
  /\ calls = <<>>
  /\ printed = <<>>
  /\ raised = "none"
  /\ ret = None

\* no literal is being encoded
CodecIdle ==
  /\ literal = <<>>
  /\ bit_width = 0
  /\ field_type = "exact"
  /\ encoded = [err |-> "none", val |-> <<>>]
  /\ encoded_key = [err |-> "none", val |-> <<>>]

\* no string is being converted
ConvIdle ==
  /\ text = <<>>
  /\ converted = [fn |-> "none", err |-> "none", val |-> 0]
  /\ restored = [err |-> "none", val |-> 0]

\* no load runs beside the commands
StepIdle ==
  /\ load_pc = "idle"
  /\ prev_json = EmptyDoc
  /\ seen = [key |-> <<>>, out |-> <<>>, pc |-> "none", json |-> EmptyDoc,
             prev |-> EmptyDoc]

NoConfig == [some |-> FALSE, doc |-> EmptyDoc]

\* the device runs the configuration the registry was read from, and has
\* been given no other
DevIdle ==
  /\ dev_running = json_
  /\ dev_staged = NoConfig

SessionIdle ==
  /\ pre_type = "None"
  /\ AtPrompt
  /\ ports = <<>>
  /\ port_map = [err |-> "none", str |-> <<>>]
  /\ CodecIdle
  /\ ConvIdle
  /\ StepIdle
  /\ DevIdle

\* the module as imported, lines 77-86: every dictionary empty
RegistryEmpty ==
  /\ TABLES = EmptyMap
  /\ ACTION_PROFS = EmptyMap
  /\ ACTIONS_ = EmptyMap
  /\ METER_ARRAYS = EmptyMap
  /\ COUNTER_ARRAYS = EmptyMap
  /\ REGISTER_ARRAYS = EmptyMap
  /\ CUSTOM_CRC_CALCS = EmptyMap
  /\ SUFFIX_LOOKUP_MAP = EmptyMap
  /\ json_ = EmptyDoc
  /\ load_err = "none"
  /\ dropped = FALSE

InitLoad == RegistryEmpty /\ SessionIdle

\* the registry variables take the value reg
SetRegistry(reg) ==
  /\ TABLES' = reg.TABLES
  /\ ACTION_PROFS' = reg.ACTION_PROFS
  /\ ACTIONS_' = reg.ACTIONS_
  /\ METER_ARRAYS' = reg.METER_ARRAYS
  /\ COUNTER_ARRAYS' = reg.COUNTER_ARRAYS
  /\ REGISTER_ARRAYS' = reg.REGISTER_ARRAYS
  /\ CUSTOM_CRC_CALCS' = reg.CUSTOM_CRC_CALCS
  /\ SUFFIX_LOOKUP_MAP' = reg.SUFFIX_LOOKUP_MAP

\* the names a document declares for a kind
DocNames(json, res_type) ==
  LET tables == UNION {Range(json.pipelines[i].tables) :
                         i \in 1..Len(json.pipelines)}
  IN CASE res_type = "table" -> {t.name : t \in tables}
       [] res_type = "action_prof" ->
            UNION {{p.name : p \in Range(json.pipelines[i].action_profiles)} :
                     i \in 1..Len(json.pipelines)}
            \cup {t.act_prof_name :
                    t \in {u \in tables : u.type \in {"indirect", "indirect_ws"}
                                          /\ ~u.has_action_profile
                                          /\ u.has_act_prof_name}}
       [] res_type = "action" -> {a.name : a \in Range(json.actions)}
       [] res_type = "meter_array" -> {m.name : m \in Range(json.meter_arrays)}
       [] res_type = "counter_array" ->
            {c.name : c \in Range(json.counter_arrays)}
       [] res_type = "register_array" ->
            {r.name : r \in Range(json.register_arrays)}

\* s is one or more whole trailing segments of name
IsTrailingSegments(s, name) ==
  /\ Len(s) <= Len(name)
  /\ SubSeq(name, Len(name) - Len(s) + 1, Len(name)) = s
  /\ Len(s) < Len(name) => name[Len(name) - Len(s)] = "."
  /\ s = <<>> => name = <<>>

\* the suffix keys a document gives rise to
DocKeys(json) ==
  UNION {UNION {{<<k, s>> : s \in Range(name_suffixes(n))} :
                  n \in DocNames(json, k)} : k \in Range(ResType)}

LoadJsonStr ==
  \E json \in Docs :
    LET Loaded(r) == SetRegistry(r.reg) /\ load_err' = r.err
    IN /\ Loaded(load_json_str(CurrentRegistry, json))
       /\ json_' = json
       /\ dropped' = (\E key \in DOMAIN SUFFIX_LOOKUP_MAP :
                        key \notin DocKeys(json))
       /\ UNCHANGED <<pre_type, sessvars, ports, port_map, codecvars, convvars, stepvars, devvars>>

NextLoad == LoadJsonStr

SpecLoad == InitLoad /\ [][NextLoad]_vars

----------------------------------------------------------------------------
(* Name resolution *)

\* every contiguous piece of a pool name or of a registered name: full
\* names, trailing segments, leading segments, pieces that start or end at a
\* dot
Strings ==
  LET known == Names \cup UNION {DOMAIN res_dict(CurrentRegistry, k) :
                                   k \in Range(ResType)}
  IN UNION {{SubSeq(n, i, j) : i \in 1..Len(n), j \in 1..Len(n)} :
              n \in known}

\* the resources of kind k of which s is one or more whole trailing segments
Owners(k, s) ==
  {n \in DOMAIN res_dict(CurrentRegistry, k) : IsTrailingSegments(s, n)}

\* C3: after a successful load, (kind, s) is in the suffix index and maps to
\* resource r exactly when r is the only resource of that kind whose name
\* ends in the whole segments s; nothing else is a key of the index.
C3_SuffixIffUniqueOwner ==
  load_err = "ok" =>
    /\ \A k \in Range(ResType) : \A s \in Strings :
         \A r \in DOMAIN res_dict(CurrentRegistry, k) :
           (/\ <<k, s>> \in DOMAIN SUFFIX_LOOKUP_MAP
            /\ SUFFIX_LOOKUP_MAP[<<k, s>>] = r)
           <=> Owners(k, s) = {r}
    /\ \A key \in DOMAIN SUFFIX_LOOKUP_MAP :
         /\ key[1] \in Range(ResType)
         /\ Owners(key[1], key[2]) = {SUFFIX_LOOKUP_MAP[key]}

\* foo.bar.baz and qux.bar.baz loaded as tables: only the full names resolve
C3_Witness ==
  /\ load_err = "ok"
  /\ DOMAIN TABLES = ExampleNames
  /\ <<"table", <<"baz">>>> \notin DOMAIN SUFFIX_LOOKUP_MAP
  /\ <<"table", <<"bar", ".", "baz">>>> \notin DOMAIN SUFFIX_LOOKUP_MAP
  /\ \A n \in ExampleNames : get_res(CurrentRegistry, n, "table").err = "ok"

\* C4 as claimed: after a successful load every resource of the six indexed
\* maps resolves by its exact full name to itself.
C4_FullNameResolves ==
  load_err = "ok" =>
    \A k \in Range(ResType) : \A n \in DOMAIN res_dict(CurrentRegistry, k) :
      /\ <<k, n>> \in DOMAIN SUFFIX_LOOKUP_MAP
      /\ get_res(CurrentRegistry, n, k).res.name = n

----------------------------------------------------------------------------
(* Reload *)

EmptyRegistry ==
  Registry(EmptyMap, EmptyMap, EmptyMap, EmptyMap, EmptyMap, EmptyMap,
           EmptyMap, EmptyMap)

\* C5: every load leaves the registry that the same document gives from an
\* empty registry, every entry and suffix key is declared by that document,
\* and a suffix key of the earlier registry that the document does not
\* declare no longer resolves.
C5_ReloadReplaces ==
  [][LET after == CurrentRegistry'
     IN /\ after = load_json_str(EmptyRegistry, json_').reg
        /\ \A k \in Range(ResType) :
             DOMAIN res_dict(after, k) \subseteq DocNames(json_', k)
        /\ DOMAIN after.CUSTOM_CRC_CALCS \subseteq
             {c.name : c \in Range(json_'.calculations)}
        /\ DOMAIN after.SUFFIX_LOOKUP_MAP \subseteq DocKeys(json_')
        /\ \A key \in DOMAIN SUFFIX_LOOKUP_MAP :
             key \notin DocKeys(json_') =>
               get_res(after, key[2], key[1]).err = "UIn_ResourceError"
    ]_vars

\* a successful reload whose document dropped a resolvable name
C5_Witness ==
  /\ load_err = "ok"
  /\ dropped
  /\ DOMAIN TABLES # {}
  /\ DOMAIN SUFFIX_LOOKUP_MAP # {}

\* C6 as claimed: a failed load leaves all seven resource maps and the
\* suffix index empty.
C6_FailedLoadLeavesEmpty ==
  load_err \notin {"none", "ok"} =>
    /\ \A k \in Range(ResType) : DOMAIN res_dict(CurrentRegistry, k) = {}
    /\ DOMAIN CUSTOM_CRC_CALCS = {}
    /\ DOMAIN SUFFIX_LOOKUP_MAP = {}



\* the tables of the document
DocTables(json) ==
  UNION {Range(json.pipelines[i].tables) : i \in 1..Len(json.pipelines)}

\* the indirect tables of the document that name the action profile
DocBound(json, name) ==
  {t \in DocTables(json) :
     /\ t.type \in {"indirect", "indirect_ws"}
     /\ name = IF t.has_action_profile THEN t.action_profile
               ELSE t.act_prof_name}

\* C25 as claimed: after a successful load every action profile holds the
\* union of the action sets of the tables that name it, by action_profile or
\* by a legacy act_prof_name, and counts those tables in ref_cnt; and every
\* such table's action_prof is the object registered under that name.
C25_ProfileAccumulates ==
  load_err = "ok" =>
    \A name \in DOMAIN ACTION_PROFS :
      LET P == ACTION_PROFS[name]
          bound == {t.name : t \in DocBound(json_, name)}
      IN /\ P.actions = UNION {TABLES[t].actions : t \in bound}
         /\ P.ref_cnt = Cardinality(bound)
         /\ \A t \in bound : TABLES[t].action_prof = P.oid

----------------------------------------------------------------------------
(* A load beside the commands.  load_json_str works on the module-level      *)
(* dictionaries in place and takes no lock: run beside a command, its steps  *)
(* are steps a lookup of the command can fall between.  The steps are the    *)
(* reset (line 273), the entering of the resources (lines 276-341), the      *)
(* entering of the suffixes (lines 349-361) and the deletion of the          *)
(* ambiguous ones (lines 362-364).                                           *)

\* documents that load: sharing an action, and with two tables that share a
\* suffix
StepDocs == {BaseDoc, KeyedDoc, NamedDoc("table", ExampleNames)}

LookupKeys ==
  {<<"action", <<"b">>>>, <<"table", <<"b">>>>,
   <<"table", <<"bar", ".", "baz">>>>,
   <<"table", <<"foo", ".", "bar", ".", "baz">>>>}

InitStep == RegistryEmpty /\ SessionIdle

StepUnchanged ==
  UNCHANGED <<dropped, pre_type, sessvars, ports, port_map, codecvars,
              convvars, devvars>>

\* line 273: reset_config()
LoadReset ==
  /\ load_pc = "idle"
  /\ \E json \in StepDocs :
       /\ SetRegistry(reset_config(CurrentRegistry))
       /\ json_' = json
  /\ prev_json' = json_
  /\ load_err' = "none"
  /\ load_pc' = "reset"
  /\ UNCHANGED seen
  /\ StepUnchanged

\* lines 276-341
LoadResources ==
  /\ load_pc = "reset"
  /\ SetRegistry(load_resources([reg |-> CurrentRegistry, err |-> "ok",
                                 noid |-> 0], json_).reg)
  /\ load_pc' = "populated"
  /\ UNCHANGED <<json_, prev_json, load_err, seen>>
  /\ StepUnchanged

\* lines 349-361
LoadSuffixes ==
  /\ load_pc = "populated"
  /\ SetRegistry([CurrentRegistry EXCEPT !.SUFFIX_LOOKUP_MAP =
                    index_kinds([map |-> @, suffix_count |-> EmptyMap],
                                CurrentRegistry, 1).map])
  /\ load_pc' = "indexed"
  /\ UNCHANGED <<json_, prev_json, load_err, seen>>
  /\ StepUnchanged

\* lines 362-364: the counts are those the loop before has left
LoadPrune ==
  /\ load_pc = "indexed"
  /\ SetRegistry([CurrentRegistry EXCEPT !.SUFFIX_LOOKUP_MAP =
                    prune(index_kinds([map |-> @, suffix_count |-> EmptyMap],
                                      CurrentRegistry, 1))])
  /\ load_pc' = "idle"
  /\ load_err' = "ok"
  /\ UNCHANGED <<json_, prev_json, seen>>
  /\ StepUnchanged

\* lines 764-768, a lookup of a command, at any moment
GetRes ==
  /\ \E key \in LookupKeys :
       seen' = [key |-> key, out |-> get_res(CurrentRegistry, key[2], key[1]),
                pc |-> load_pc, json |-> json_, prev |-> prev_json]
  /\ UNCHANGED <<regvars, json_, load_err, load_pc, prev_json>>
  /\ StepUnchanged

NextStep == LoadReset \/ LoadResources \/ LoadSuffixes \/ LoadPrune \/ GetRes

SpecStep == InitStep /\ [][NextStep]_vars

\* what a lookup of the key returns on the complete registry of a document
Complete(json, key) ==
  get_res(load_json_str(EmptyRegistry, json).reg, key[2], key[1])

----------------------------------------------------------------------------
(* int(s) of a string of characters: an optional sign, then decimal digits   *)

Digits == <<"0", "1", "2", "3", "4", "5", "6", "7", "8", "9">>

DigitVal(c) == (CHOOSE i \in 1..Len(Digits) : Digits[i] = c) - 1

RECURSIVE digits_value(_, _)
digits_value(s, acc) ==
  IF s = <<>> THEN acc ELSE digits_value(Tail(s), 10 * acc + DigitVal(Head(s)))

\* [ok, val]: ok is FALSE where int() raises ValueError
py_int(s) ==
  LET signed == s # <<>> /\ Head(s) \in {"+", "-"}
      body == IF signed THEN Tail(s) ELSE s
      v == digits_value(body, 0)
  IN IF body = <<>> \/ \E i \in 1..Len(body) : body[i] \notin Range(Digits)
     THEN [ok |-> FALSE, val |-> 0]
     ELSE [ok |-> TRUE, val |-> IF signed /\ Head(s) = "-" THEN 0 - v ELSE v]

----------------------------------------------------------------------------
(* ports_to_port_map_str, lines 1292-1313 *)

\* list.sort() on integers
RECURSIVE insert_sorted(_, _)
insert_sorted(x, s) ==
  IF s = <<>> THEN <<x>>
  ELSE IF x <= Head(s) THEN <<x>> \o s
  ELSE <<Head(s)>> \o insert_sorted(x, Tail(s))

RECURSIVE sort(_)
sort(s) == IF s = <<>> THEN <<>> ELSE insert_sorted(Head(s), sort(Tail(s)))

Repeat(c, n) == [i \in 1..n |-> c]

Reverse(s) == [i \in 1..Len(s) |-> s[Len(s) + 1 - i]]

\* lines 1296-1305: the port numbers, or the error of the first bad token
RECURSIVE ports_parse(_, _, _)
ports_parse(port_strs, i, ports_int) ==
  IF i > Len(port_strs) THEN [err |-> "ok", ports_int |-> ports_int]
  ELSE LET next(n) ==
             IF ~n.ok \/ n.val < 0
             THEN [err |-> "UIn_Error", ports_int |-> ports_int]
             ELSE ports_parse(port_strs, i + 1, Append(ports_int, n.val))
       IN next(py_int(port_strs[i]))

\* a mutant of the second loop: the duplicate test compares with
\* last_port_num instead of last_port_num - 1
RECURSIVE ports_map_loop_off_by_one(_, _, _, _)
ports_map_loop_off_by_one(ports_int, i, last_port_num, port_map_str) ==
  IF i > Len(ports_int) THEN [err |-> "ok", str |-> port_map_str]
  ELSE LET port_num == ports_int[i]
       IN IF port_num = last_port_num
          THEN [err |-> "UIn_Error", str |-> <<>>]
          ELSE ports_map_loop_off_by_one(
                 ports_int, i + 1, port_num + 1,
                 port_map_str \o Repeat("0", port_num - last_port_num)
                              \o <<"1">>)

\* lines 1307-1312 over the sorted numbers
RECURSIVE ports_map_loop(_, _, _, _)
ports_map_loop(ports_int, i, last_port_num, port_map_str) ==
  IF i > Len(ports_int) THEN [err |-> "ok", str |-> port_map_str]
  ELSE LET port_num == ports_int[i]
       IN IF port_num = last_port_num - 1
          THEN [err |-> "UIn_Error", str |-> <<>>]
          ELSE ports_map_loop(
                 ports_int, i + 1, port_num + 1,
                 port_map_str \o Repeat("0", port_num - last_port_num)
                              \o <<"1">>)

ports_to_port_map_str(port_strs) ==
  LET \* line 1313
      reversed(built) ==
        IF built.err # "ok" THEN built
        ELSE [err |-> "ok", str |-> Reverse(built.str)]
      \* lines 1306-1312
      mapped(parsed) ==
        IF parsed.err # "ok" THEN [err |-> parsed.err, str |-> <<>>]
        ELSE reversed(ports_map_loop(sort(parsed.ports_int), 1, 0, <<>>))
  IN mapped(ports_parse(port_strs, 1, <<>>))

\* the port tokens the model hands in: numbers, a repeated value under
\* another spelling, a negative number, a non-number
PortTokens ==
  {<<"0">>, <<"1">>, <<"2">>, <<"3">>, <<"+", "2">>, <<"0", "3">>,
   <<"1", "0">>, <<"-", "1">>, <<"x">>, <<>>}

RECURSIVE SeqsUpTo(_, _)
SeqsUpTo(S, n) ==
  IF n = 0 THEN {<<>>}
  ELSE LET shorter == SeqsUpTo(S, n - 1)
       IN shorter \cup {Append(q, x) : q \in shorter, x \in S}

\* a port list about to be encoded
InitPorts ==
  /\ RegistryEmpty
  /\ pre_type = "None"
  /\ AtPrompt
  /\ ports \in SeqsUpTo(PortTokens, MaxPorts)
  /\ port_map = [err |-> "none", str |-> <<>>]
  /\ CodecIdle
  /\ ConvIdle
  /\ StepIdle
  /\ DevIdle

PortsToPortMapStr ==
  /\ port_map.err = "none"
  /\ port_map' = ports_to_port_map_str(ports)
  /\ UNCHANGED <<regvars, json_, load_err, dropped, pre_type, sessvars,
                 ports, codecvars, convvars, stepvars, devvars>>

NextPorts == PortsToPortMapStr

SpecPorts == InitPorts /\ [][NextPorts]_vars

\* the numbers the tokens of a list stand for
PortValues(port_strs) == [i \in 1..Len(port_strs) |-> py_int(port_strs[i]).val]

WellFormedPorts(port_strs) ==
  /\ \A i \in 1..Len(port_strs) :
       py_int(port_strs[i]).ok /\ py_int(port_strs[i]).val >= 0
  /\ \A i, j \in 1..Len(port_strs) :
       i # j => PortValues(port_strs)[i] # PortValues(port_strs)[j]

MaxOf(S) == CHOOSE x \in S : \A y \in S : y <= x

\* C10: once ports_to_port_map_str has run: for distinct non-negative integer tokens the result is a 0/1 string
\* of length max(port)+1 (empty for no ports) with '1' at index
\* length-1-p exactly for the ports p given, whatever their order; any other
\* list fails with a user-input error.
C10_PortMap ==
  LET set == Range(PortValues(ports))
      str == port_map.str
  IN port_map.err = "none" \/
     IF WellFormedPorts(ports)
     THEN /\ port_map.err = "ok"
          /\ Len(str) = IF set = {} THEN 0 ELSE MaxOf(set) + 1
          /\ \A i \in 1..Len(str) : str[i] \in {"0", "1"}
          /\ \A p \in 0..(Len(str) - 1) : str[Len(str) - p] = "1" <=> p \in set
          /\ \A f \in Permutations(1..Len(ports)) :
               ports_to_port_map_str([i \in 1..Len(ports) |-> ports[f[i]]])
                 = port_map
     ELSE port_map.err = "UIn_Error"

\* the ports 0, 2, 3 given out of order encode as "1101"
C10_Witness ==
  /\ ports = <<<<"3">>, <<"0">>, <<"+", "2">>>>
  /\ port_map = [err |-> "ok", str |-> <<"1", "1", "0", "1">>]

----------------------------------------------------------------------------
(* The binary codec, lines 69-71 and 418-498.  A result is [err, val]: err   *)
(* is "ok" or the exception raised.                                          *)

HexDigits == <<"0", "1", "2", "3", "4", "5", "6", "7", "8", "9",
               "a", "b", "c", "d", "e", "f">>

HexVal(c) ==
  (CHOOSE i \in 1..Len(HexDigits) :
     HexDigits[i] = c \/ (i > 10 /\ c = <<"A", "B", "C", "D", "E", "F">>[i - 10]))
  - 1

IsHexDigit(c) == c \in Range(HexDigits) \cup {"A", "B", "C", "D", "E", "F"}

RECURSIVE radix_value(_, _, _)
radix_value(s, base, acc) ==
  IF s = <<>> THEN acc
  ELSE radix_value(Tail(s), base, base * acc + HexVal(Head(s)))

\* the digits of s all belong to the base
InBase(s, base) ==
  s # <<>> /\ \A i \in 1..Len(s) : IsHexDigit(s[i]) /\ HexVal(s[i]) < base

\* int(s, base) for an explicit base (no prefix handling beyond 0x at 16)
py_int_base(s, base) ==
  LET signed == s # <<>> /\ Head(s) \in {"+", "-"}
      b0 == IF signed THEN Tail(s) ELSE s
      body == IF base = 16 /\ Len(b0) >= 2 /\ b0[1] = "0" /\ b0[2] \in {"x", "X"}
              THEN SubSeq(b0, 3, Len(b0)) ELSE b0
      v == radix_value(body, base, 0)
  IN IF ~InBase(body, base) THEN [ok |-> FALSE, val |-> 0]
     ELSE [ok |-> TRUE, val |-> IF signed /\ Head(s) = "-" THEN 0 - v ELSE v]

\* int(s, 0): the base is read off the literal's prefix (Python 2: a leading
\* 0 alone means octal)
py_int0(s) ==
  LET signed == s # <<>> /\ Head(s) \in {"+", "-"}
      b0 == IF signed THEN Tail(s) ELSE s
      pre == IF Len(b0) >= 2 /\ b0[1] = "0" THEN b0[2] ELSE "none"
      base == IF pre \in {"x", "X"} THEN 16
              ELSE IF pre \in {"b", "B"} THEN 2
              ELSE IF pre \in {"o", "O"} \/ pre # "none" THEN 8
              ELSE 10
      body == IF pre \in {"x", "X", "b", "B", "o", "O"}
              THEN SubSeq(b0, 3, Len(b0)) ELSE b0
      v == radix_value(body, base, 0)
  IN IF ~InBase(body, base) THEN [ok |-> FALSE, val |-> 0]
     ELSE [ok |-> TRUE, val |-> IF signed /\ Head(s) = "-" THEN 0 - v ELSE v]

\* [int(b) for b in pieces], or the failure of the first bad piece
AllInts(pieces, base) ==
  \A i \in 1..Len(pieces) :
    IF base = 10 THEN py_int(pieces[i]).ok ELSE py_int_base(pieces[i], base).ok

\* a mutant of ipv4Addr_to_bytes: any number of groups is taken
ipv4Addr_to_bytes_any_length(addr) ==
  LET s == split(addr, ".")
  IN IF "." \notin Range(addr) THEN [err |-> "CLI_FormatExploreError", val |-> <<>>]
     ELSE IF ~AllInts(s, 10) THEN [err |-> "UIn_BadIPv4Error", val |-> <<>>]
     ELSE [err |-> "ok", val |-> [i \in 1..Len(s) |-> py_int(s[i]).val]]

\* lines 418-427
ipv4Addr_to_bytes(addr) ==
  LET s == split(addr, ".")
  IN IF "." \notin Range(addr) THEN [err |-> "CLI_FormatExploreError", val |-> <<>>]
     ELSE IF Len(s) # 4 THEN [err |-> "UIn_BadIPv4Error", val |-> <<>>]
     ELSE IF ~AllInts(s, 10) THEN [err |-> "UIn_BadIPv4Error", val |-> <<>>]
     ELSE [err |-> "ok", val |-> [i \in 1..4 |-> py_int(s[i]).val]]

\* lines 429-438
macAddr_to_bytes(addr) ==
  LET s == split(addr, ":")
  IN IF ":" \notin Range(addr) THEN [err |-> "CLI_FormatExploreError", val |-> <<>>]
     ELSE IF Len(s) # 6 THEN [err |-> "UIn_BadMacError", val |-> <<>>]
     ELSE IF ~AllInts(s, 16) THEN [err |-> "UIn_BadMacError", val |-> <<>>]
     ELSE [err |-> "ok", val |-> [i \in 1..6 |-> py_int_base(s[i], 16).val]]

\* lines 440-451, for the uncompressed form of eight groups of one to four
\* hexadecimal digits, which ipaddr.IPv6Address packs as two bytes a group
ipv6Addr_to_bytes(addr) ==
  LET s == split(addr, ":")
      good == /\ Len(s) = 8
              /\ \A i \in 1..Len(s) :
                   Len(s[i]) \in 1..4 /\ \A k \in 1..Len(s[i]) : IsHexDigit(s[i][k])
  IN IF ":" \notin Range(addr) THEN [err |-> "CLI_FormatExploreError", val |-> <<>>]
     ELSE IF ~good THEN [err |-> "UIn_BadIPv6Error", val |-> <<>>]
     ELSE [err |-> "ok",
           val |-> [i \in 1..16 |->
                      LET g == radix_value(s[(i + 1) \div 2], 16, 0)
                      IN IF i % 2 = 1 THEN g \div 256 ELSE g % 256]]

\* lines 455-458: the bytes of i, least significant first, and what is left
\* of num
RECURSIVE int_to_bytes_loop(_, _, _)
int_to_bytes_loop(i, num, byte_array) ==
  IF i > 0
  THEN int_to_bytes_loop(i \div 256, num - 1, Append(byte_array, i % 256))
  ELSE [num |-> num, byte_array |-> byte_array]

\* a mutant of int_to_bytes: no zero bytes are added
int_to_bytes_unpadded(i, num) ==
  LET padded(l) ==
        IF l.num < 0 THEN [err |-> "UIn_BadParamError", val |-> <<>>]
        ELSE [err |-> "ok", val |-> Reverse(l.byte_array)]
  IN padded(int_to_bytes_loop(i, num, <<>>))

\* lines 453-465
int_to_bytes(i, num) ==
  LET padded(l) ==
        IF l.num < 0 THEN [err |-> "UIn_BadParamError", val |-> <<>>]
        ELSE [err |-> "ok",
              val |-> Reverse(l.byte_array \o Repeat(0, l.num))]
  IN padded(int_to_bytes_loop(i, num, <<>>))

\* a mutant of parse_param: every literal is read as a number
parse_param_integer_only(input_str, bitwidth) ==
  LET number(input_) ==
        IF ~input_.ok THEN [err |-> "UIn_BadParamError", val |-> <<>>]
        ELSE int_to_bytes(input_.val, (bitwidth + 7) \div 8)
  IN number(py_int0(input_str))

\* lines 467-498
parse_param(input_str, bitwidth) ==
  LET \* lines 490-498: the string read as a number
      number(input_) ==
        IF ~input_.ok THEN [err |-> "UIn_BadParamError", val |-> <<>>]
        ELSE int_to_bytes(input_.val, (bitwidth + 7) \div 8)
      \* lines 468-489: the string read as an address of the field's width
      bytes(addr) ==
        IF addr.err = "ok" THEN addr
        ELSE IF addr.err # "CLI_FormatExploreError"
        THEN [err |-> "UIn_BadParamError", val |-> <<>>]
        ELSE number(py_int0(input_str))
  IN bytes(IF bitwidth = 32 THEN ipv4Addr_to_bytes(input_str)
           ELSE IF bitwidth = 48 THEN macAddr_to_bytes(input_str)
           ELSE IF bitwidth = 128 THEN ipv6Addr_to_bytes(input_str)
           ELSE [err |-> "CLI_FormatExploreError", val |-> <<>>])

\* lines 69-71: struct.pack('B' * n, ...) takes integers in 0..255 only
bytes_to_string(byte_array) ==
  IF \E i \in 1..Len(byte_array) : byte_array[i] \notin 0..255
  THEN [err |-> "struct.error", val |-> <<>>]
  ELSE [err |-> "ok", val |-> byte_array]

----------------------------------------------------------------------------
(* Runtime data and match keys, lines 500-594 *)

\* parse_param_ then bytes_to_string for one value: the error raised inside
\* parse_param becomes wrapped, the one of bytes_to_string is not
encode_field(field, bw, wrapped) ==
  LET packed(p) ==
        IF p.err # "ok" THEN [err |-> wrapped, val |-> <<>>]
        ELSE bytes_to_string(p.val)
  IN packed(parse_param(field, bw))

\* lines 500-513: zip(params, bitwidths) stops at the shorter list
RECURSIVE parse_runtime_data_loop(_, _, _, _)
parse_runtime_data_loop(params, bitwidths, i, byte_array) ==
  IF i > Len(params) \/ i > Len(bitwidths)
  THEN [err |-> "ok", val |-> byte_array]
  ELSE LET next(e) ==
             IF e.err # "ok" THEN [err |-> e.err, val |-> <<>>]
             ELSE parse_runtime_data_loop(params, bitwidths, i + 1,
                                          Append(byte_array, e.val))
       IN next(encode_field(params[i], bitwidths[i], "UIn_RuntimeDataError"))

parse_runtime_data(action, params) ==
  parse_runtime_data_loop(
    params, [i \in 1..Len(action.runtime_data) |-> action.runtime_data[i][2]],
    1, <<>>)

\* lines 782-788
RuntimeAPI_parse_runtime_data(action, action_params) ==
  IF Len(action_params) # Len(action.runtime_data)
  THEN [err |-> "UIn_Error", val |-> <<>>]
  ELSE parse_runtime_data(action, action_params)

\* a mutant of bytes_gt: only the last bytes are compared
bytes_gt_by_last_byte(x, y) ==
  x # <<>> /\ y # <<>> /\ x[Len(x)] > y[Len(y)]

\* str > str on byte strings: lexicographic
RECURSIVE bytes_gt(_, _)
bytes_gt(x, y) ==
  IF x = <<>> THEN FALSE
  ELSE IF y = <<>> THEN TRUE
  ELSE IF Head(x) # Head(y) THEN Head(x) > Head(y)
  ELSE bytes_gt(Tail(x), Tail(y))

\* lines 539-590, one field of the key
parse_match_field(field, match_type, bw) ==
  LET sep == CASE match_type = "lpm" -> "/"
               [] match_type = "ternary" -> "&&&"
               [] match_type = "range" -> "->"
               [] OTHER -> "none"
      \* the pieces that go through parse_param and bytes_to_string: the
      \* field itself, the prefix of an lpm key, both sides of a mask or range
      coded == IF match_type \in {"ternary", "range"} THEN 2
               ELSE IF match_type = "valid" THEN 0 ELSE 1
      bad == [err |-> "UIn_MatchKeyError", val |-> <<>>]
      param(k, num) ==
        CASE match_type = "exact" ->
               IF k[1].err # "ok" THEN [err |-> k[1].err, val |-> <<>>]
               ELSE [err |-> "ok", val |-> [type |-> "exact", key |-> k[1].val]]
          [] match_type = "lpm" ->
               IF k[1].err # "ok" THEN [err |-> k[1].err, val |-> <<>>]
               ELSE IF ~num.ok THEN [err |-> "ValueError", val |-> <<>>]
               ELSE [err |-> "ok",
                     val |-> [type |-> "lpm", key |-> k[1].val,
                              prefix_length |-> num.val]]
          [] match_type = "ternary" ->
               IF k[1].err # "ok" THEN [err |-> k[1].err, val |-> <<>>]
               ELSE IF k[2].err # "ok" THEN [err |-> k[2].err, val |-> <<>>]
               ELSE IF Len(k[2].val) # Len(k[1].val) THEN bad
               ELSE [err |-> "ok",
                     val |-> [type |-> "ternary", key |-> k[1].val,
                              mask |-> k[2].val]]
          [] match_type = "valid" ->
               IF ~num.ok THEN [err |-> "ValueError", val |-> <<>>]
               ELSE [err |-> "ok",
                     val |-> [type |-> "valid", key |-> num.val # 0]]
          [] match_type = "range" ->
               IF k[1].err # "ok" THEN [err |-> k[1].err, val |-> <<>>]
               ELSE IF k[2].err # "ok" THEN [err |-> k[2].err, val |-> <<>>]
               ELSE IF Len(k[1].val) # Len(k[2].val) THEN bad
               ELSE IF bytes_gt(k[1].val, k[2].val) THEN bad
               ELSE [err |-> "ok",
                     val |-> [type |-> "range", start |-> k[1].val,
                              end_ |-> k[2].val]]
      parts == IF sep = "none" THEN <<field>> ELSE split(field, sep)
  IN IF sep # "none" /\ Len(parts) # 2 THEN bad
     ELSE param([i \in 1..coded |->
                   encode_field(parts[i], bw, "UIn_MatchKeyError")],
                py_int(parts[Len(parts)]))

\* lines 523-594: match_types[idx] is an IndexError past the table's key
RECURSIVE parse_match_key_loop(_, _, _, _)
parse_match_key_loop(table, key_fields, idx, params) ==
  IF idx > Len(key_fields) THEN [err |-> "ok", val |-> params]
  ELSE IF idx > Len(table.key) THEN [err |-> "IndexError", val |-> <<>>]
  ELSE LET next(f) ==
             IF f.err # "ok" THEN [err |-> f.err, val |-> <<>>]
             ELSE parse_match_key_loop(table, key_fields, idx + 1,
                                       Append(params, f.val))
       IN next(parse_match_field(key_fields[idx], table.key[idx][2],
                                 table.key[idx][3]))

parse_match_key(table, key_fields) ==
  parse_match_key_loop(table, key_fields, 1, <<>>)

----------------------------------------------------------------------------
(* The codec alone: parse_param and parse_match_key applied to one literal   *)
(* at one bit width.                                                         *)

\* the digits of v in a base, most significant first
RECURSIVE digits_of(_, _)
digits_of(v, base) ==
  IF v < base THEN <<HexDigits[v + 1]>>
  ELSE Append(digits_of(v \div base, base), HexDigits[(v % base) + 1])

\* str(v) and hex(v)
decimal_literal(v) == digits_of(v, 10)

hex_literal(v) == <<"0", "x">> \o digits_of(v, 16)

\* the integers handed in as literals: the ends of the one-, two- and
\* three-byte ranges, the values next to them and the largest the checker's
\* arithmetic holds
Values ==
  {0, 1, 9, 10, 255, 256, 511, 512, 65535, 65536, 16777215, 16777216,
   2147483647}

\* field widths: whole bytes, and widths that end inside a byte
Widths == {1, 8, 9, 12, 16, 24, 32, 48, 64, 128}

\* address-shaped literals, well and ill formed, and literals that are no
\* numbers
AddressLiterals ==
  {<<"1", "0", ".", "0", ".", "0", ".", "1">>,
   <<"3", "0", "0", ".", "0", ".", "0", ".", "1">>,
   <<"1", ".", "2", ".", "3">>,
   <<"1", ".", "2", ".", "3", ".", "4", ".", "5">>,
   <<"1", ".", "x", ".", "3", ".", "4">>, <<"1", ".", ".", "3", ".", "4">>,
   <<"0", "0", ":", "1", "a", ":", "2", "b", ":", "3", "c", ":", "4",
     "d", ":", "5", "e">>,
   <<"0", ":", "1", ":", "2", ":", "3", ":", "4">>,
   <<"0", ":", "1", ":", "2", ":", "3", ":", "4", ":", "z", "z">>,
   <<"0", ":", "1", ":", "2", ":", "3", ":", "4", ":", "5", ":", "6">>,
   <<"1", ":", "2", ":", "3", ":", "4", ":", "5", ":", "6", ":", "7",
     ":", "8">>,
   <<"1", ":", "2", ":", "3", ":", "4", ":", "5", ":", "6", ":", "7",
     ":", "1", "0", "0", "0", "0">>,
   <<"1", "f", "f", ":", "0", ":", "0", ":", "0", ":", "0", ":", "1">>, <<>>,
   <<"x">>, <<"0", "x">>, <<"-", "1">>, <<"-", "5">>, <<"0", "1", "0">>,
   <<"1", ".", "5">>}

\* key fields with their separators
FieldLiterals ==
  {<<"1", "0", ".", "0", ".", "0", ".", "1", "&&&", "2", "5", "5", ".",
     "2", "5", "5", ".", "2", "5", "5", ".", "0">>,
   <<"1", "0", ".", "0", ".", "0", ".", "1", "&&&", "2", "5", "5", ".",
     "2", "5", "5", ".", "0">>,
   <<"1", "0", ".", "0", ".", "0", ".", "1", "&&&", "0", "x", "7", "f",
     "f", "f", "f", "f", "0", "0">>,
   <<"5", "&&&", "2", "5", "5">>, <<"5", "&&&", "x">>, <<"x", "&&&", "5">>,
   <<"1", "&&&", "2", "&&&", "3">>, <<"&&&">>,
   <<"0", "x", "1", "f", "f", "&&&", "1">>,
   <<"1", "&&&", "0", "x", "1", "f", "f">>,
   <<"0", "0", ":", "1", "a", ":", "2", "b", ":", "3", "c", ":", "4",
     "d", ":", "5", "e", "&&&",
     "0", "x", "f", "f", "f", "f", "f", "f">>,
   <<"3", "0", "0", ".", "0", ".", "0", ".", "1", "&&&", "2", "5", "5",
     ".", "2", "5", "5", ".", "2", "5", "5", ".", "0">>,
   <<"1", "0", ".", "0", ".", "0", ".", "1", "/", "2", "4">>,
   <<"1", "0", ".", "0", ".", "0", ".", "1", "/", "x">>, <<"1", "->", "5">>,
   <<"5", "->", "1">>, <<"5", "->", "3">>, <<"3", "->", "5">>,
   <<"4", "->", "4">>, <<"2", "5", "6", "->", "2", "5", "5">>,
   <<"2", "5", "5", "->", "2", "5", "6">>,
   <<"0", "x", "1", "0", "->", "9">>, <<"9", "->", "0", "x", "1", "0">>,
   <<"1", "->", "2", "->", "3">>, <<"->">>, <<"x", "->", "5">>}

Literals ==
  {decimal_literal(v) : v \in Values} \cup {hex_literal(v) : v \in Values}
    \cup AddressLiterals \cup FieldLiterals

InitCodec ==
  /\ RegistryEmpty
  /\ pre_type = "None"
  /\ AtPrompt
  /\ ports = <<>>
  /\ port_map = [err |-> "none", str |-> <<>>]
  /\ literal \in Literals
  /\ bit_width \in Widths
  /\ field_type \in MatchType
  /\ encoded = [err |-> "none", val |-> <<>>]
  /\ encoded_key = [err |-> "none", val |-> <<>>]
  /\ ConvIdle
  /\ StepIdle
  /\ DevIdle

ParseParam ==
  /\ encoded.err = "none"
  /\ encoded' = parse_param(literal, bit_width)
  /\ UNCHANGED <<regvars, json_, load_err, dropped, pre_type, sessvars,
                 ports, port_map, literal, bit_width, field_type,
                 encoded_key, convvars, stepvars, devvars>>

\* parse_match_key on a table whose key is one field of the type and width
ParseMatchKey ==
  /\ encoded_key.err = "none"
  /\ encoded_key' =
       parse_match_key([key |-> <<<<<<"f">>, field_type, bit_width>>>>],
                       <<literal>>)
  /\ UNCHANGED <<regvars, json_, load_err, dropped, pre_type, sessvars,
                 ports, port_map, literal, bit_width, field_type, encoded,
                 convvars, stepvars, devvars>>

NextCodec == ParseParam \/ ParseMatchKey

SpecCodec == InitCodec /\ [][NextCodec]_vars

RECURSIVE Pow2(_)
Pow2(n) == IF n = 0 THEN 1 ELSE 2 * Pow2(n - 1)

\* ceil(bw / 8)
CeilBytes(bw) == (bw + 7) \div 8

\* v < 2^bw, for the values of Values, all of which are below 2^31
Fits(v, bw) == bw >= 31 \/ v < Pow2(bw)

\* the number a byte sequence stands for, most significant byte first
RECURSIVE big_endian(_)
big_endian(bytes) ==
  IF bytes = <<>> THEN 0
  ELSE 256 * big_endian(SubSeq(bytes, 1, Len(bytes) - 1)) + bytes[Len(bytes)]

IsByteSeq(bytes) == \A i \in 1..Len(bytes) : bytes[i] \in 0..255

IntegerLiterals(v) == {decimal_literal(v), hex_literal(v)}

ByteWidths == {8, 16, 24, 32, 48, 64, 128}

\* C11: at a width of 8, 16, 24, 32, 48, 64 or 128 bits, parse_param of the
\* decimal or 0x literal of an integer v with 0 <= v < 2^width returns
\* exactly ceil(width/8) bytes whose big-endian value is v.
C11_IntegerRoundTrip ==
  (encoded.err # "none" /\ bit_width \in ByteWidths) =>
    \A v \in Values :
      (Fits(v, bit_width) /\ literal \in IntegerLiterals(v)) =>
        /\ encoded.err = "ok"
        /\ Len(encoded.val) = CeilBytes(bit_width)
        /\ IsByteSeq(encoded.val)
        /\ big_endian(encoded.val) = v

\* 0xffff at 24 bits is padded to three bytes
C11_Witness ==
  /\ literal = hex_literal(65535)
  /\ bit_width = 24
  /\ encoded = [err |-> "ok", val |-> <<0, 255, 255>>]

\* s is one or more decimal digits
IsDecimal(s) == s # <<>> /\ \A i \in 1..Len(s) : s[i] \in Range(Digits)

\* s is one or more hexadecimal digits
IsHex(s) == s # <<>> /\ \A i \in 1..Len(s) : IsHexDigit(s[i])

\* the literal is n groups between the separator, each of them a number
GroupsOf(s, sep, n, IsGroup(_)) ==
  /\ sep \in Range(s)
  /\ Len(split(s, sep)) = n
  /\ \A i \in 1..n : IsGroup(split(s, sep)[i])

\* what the plain-integer reading of a literal gives at a width
AsInteger(s, bw) ==
  IF py_int0(s).ok THEN int_to_bytes(py_int0(s).val, CeilBytes(bw))
  ELSE [err |-> "UIn_BadParamError", val |-> <<>>]

AddressShaped(s) == "." \in Range(s) \/ ":" \in Range(s)

\* the parts of C12 about the widths 32 and 48
C12_Addresses ==
  /\ (bit_width = 32 /\ GroupsOf(literal, ".", 4, IsDecimal)) =>
       encoded = [err |-> "ok",
                  val |-> [i \in 1..4 |->
                             digits_value(split(literal, ".")[i], 0)]]
  /\ (bit_width = 48 /\ GroupsOf(literal, ":", 6, IsHex)) =>
       encoded = [err |-> "ok",
                  val |-> [i \in 1..6 |->
                             radix_value(split(literal, ":")[i], 16, 0)]]
  /\ (bit_width = 32 /\ "." \notin Range(literal)) =>
       encoded = AsInteger(literal, 32)
  /\ (bit_width = 48 /\ ":" \notin Range(literal)) =>
       encoded = AsInteger(literal, 48)

\* C12 as claimed: parse_param reads a dotted literal of four decimal groups
\* as its four values at 32 bits and a colon literal of six hexadecimal
\* groups as its six values at 48 bits, reads a literal without the
\* separator as a plain integer at these widths, and at every other width
\* never reads a literal holding '.' or ':' as an address.
C12_DispatchAllWidths ==
  encoded.err # "none" =>
    /\ C12_Addresses
    /\ (bit_width \notin {32, 48} /\ AddressShaped(literal)) =>
         encoded.err # "ok"

\* C12 amended: as claimed, but the last part holds at the widths other than
\* 32, 48 and 128 only; at 128 bits a colon literal of eight hexadecimal
\* groups is read as an IPv6 address of sixteen bytes.
C12_Dispatch ==
  encoded.err # "none" =>
    /\ C12_Addresses
    /\ (bit_width \notin {32, 48, 128} /\ AddressShaped(literal)) =>
         encoded.err = "UIn_BadParamError"
    /\ (bit_width = 128 /\ GroupsOf(literal, ":", 8, IsHex)
          /\ \A i \in 1..8 : Len(split(literal, ":")[i]) <= 4) =>
         encoded.err = "ok" /\ Len(encoded.val) = 16

\* 10.0.0.1 at 32 bits
C12_Witness ==
  /\ literal = <<"1", "0", ".", "0", ".", "0", ".", "1">>
  /\ bit_width = 32
  /\ encoded = [err |-> "ok", val |-> <<10, 0, 0, 1>>]

\* int(s) takes s
IsInt(s) == py_int(s).ok

\* int(s, 16) takes s
IsInt16(s) == py_int_base(s, 16).ok

C14_TooLargeRejected ==
  encoded.err # "none" =>
    \A v \in Values :
      (~Fits(v, bit_width) /\ literal \in IntegerLiterals(v)) =>
        encoded.err = "UIn_BadParamError"


\* the literal has a byte encoding at the width: parse_param takes it and
\* every element of its result is a byte
Encodes(s, bw) ==
  /\ parse_param(s, bw).err = "ok"
  /\ IsByteSeq(parse_param(s, bw).val)

\* C20 as claimed: parse_match_key on a ternary field whose text does not
\* split at "&&&" into exactly two parts raises UIn_MatchKeyError; so does
\* one whose key or mask has no encoding at the field's bit width; and an
\* accepted field has a key and a mask of ceil(width/8) bytes each.
C20_TernaryField ==
  (field_type = "ternary" /\ encoded_key.err # "none") =>
    LET parts == split(literal, "&&&")
    IN /\ Len(parts) # 2 => encoded_key.err = "UIn_MatchKeyError"
       /\ (/\ Len(parts) = 2
           /\ ~Encodes(parts[1], bit_width) \/ ~Encodes(parts[2], bit_width))
          => encoded_key.err = "UIn_MatchKeyError"
       /\ encoded_key.err = "ok" =>
            /\ Len(encoded_key.val[1].key) = CeilBytes(bit_width)
            /\ Len(encoded_key.val[1].mask) = CeilBytes(bit_width)


\* s is the literal of an integer from 0 up that the width holds
FittingLiteral(s, bw) ==
  /\ py_int0(s).ok
  /\ py_int0(s).val >= 0
  /\ Fits(py_int0(s).val, bw)

\* C21: parse_match_key on a range field: a text that does not split at
\* "->" into exactly two parts raises UIn_MatchKeyError; for two integer
\* literals s and e the width holds, the field is rejected, with
\* UIn_MatchKeyError, exactly when s > e, and the byte-wise comparison of the
\* two encodings is the comparison of the integers.
C21_RangeField ==
  (field_type = "range" /\ encoded_key.err # "none") =>
    LET parts == split(literal, "->")
    IN /\ Len(parts) # 2 => encoded_key.err = "UIn_MatchKeyError"
       /\ (/\ Len(parts) = 2
           /\ FittingLiteral(parts[1], bit_width)
           /\ FittingLiteral(parts[2], bit_width))
          => LET s == py_int0(parts[1]).val
                 e == py_int0(parts[2]).val
                 start == parse_param(parts[1], bit_width).val
                 end_ == parse_param(parts[2], bit_width).val
             IN /\ encoded_key.err \in {"ok", "UIn_MatchKeyError"}
                /\ encoded_key.err = "UIn_MatchKeyError" <=> s > e
                /\ Len(start) = Len(end_)
                /\ bytes_gt(start, end_) <=> s > e
                /\ encoded_key.err = "ok" =>
                     encoded_key.val =
                       <<[type |-> "range", start |-> start, end_ |-> end_]>>

\* 256->255 at 16 bits, where the last byte of the start is the smaller one,
\* is rejected; 4->4 is accepted
C21_Witness ==
  /\ field_type = "range"
  /\ bit_width = 16
  /\ \/ /\ literal = <<"2", "5", "6", "->", "2", "5", "5">>
        /\ encoded_key.err = "UIn_MatchKeyError"
     \/ /\ literal = <<"4", "->", "4">>
        /\ encoded_key.err = "ok"



\* C26 as claimed: whatever parse_param returns, for an integer, a dotted
\* or a colon literal at any width, is a sequence of integers of 0..255, so
\* that bytes_to_string of it does not fail.
C26_ResultIsBytes ==
  encoded.err = "ok" =>
    /\ IsByteSeq(encoded.val)
    /\ bytes_to_string(encoded.val).err = "ok"

\* C27 as claimed: for an integer literal parse_param accepts, negative ones
\* included, the bytes returned read big-endian are the integer of the
\* literal; a literal of a negative integer, or of one that takes more bytes
\* than the width has, is rejected with UIn_BadParamError.
C27_IntegerPreserved ==
  (encoded.err # "none" /\ py_int0(literal).ok) =>
    LET v == py_int0(literal).val
    IN /\ encoded.err = "ok" => big_endian(encoded.val) = v
       /\ (v < 0 \/ (bit_width < 31 /\ v >= Pow2(8 * CeilBytes(bit_width)))) =>
            encoded.err = "UIn_BadParamError"

----------------------------------------------------------------------------
(* Conversions of command-line words, lines 691-723.  Python integers have   *)
(* no width: a value is held as [neg, hi, lo], standing for the magnitude    *)
(* hi * 65536 + lo with its sign, so that the values around 2^32 are within  *)
(* reach.                                                                    *)

Limb == Pow2(16)

Wide(neg, hi, lo) == [neg |-> neg /\ (hi # 0 \/ lo # 0), hi |-> hi, lo |-> lo]

\* the magnitudes compared
MagLess(x, y) == x.hi < y.hi \/ (x.hi = y.hi /\ x.lo < y.lo)

MagAdd(x, y) ==
  [hi |-> x.hi + y.hi + (x.lo + y.lo) \div Limb, lo |-> (x.lo + y.lo) % Limb]

\* x - y for magnitudes with y <= x
MagSub(x, y) ==
  IF x.lo >= y.lo THEN [hi |-> x.hi - y.hi, lo |-> x.lo - y.lo]
  ELSE [hi |-> x.hi - y.hi - 1, lo |-> x.lo + Limb - y.lo]

\* x + y
wide_add(x, y) ==
  IF x.neg = y.neg
  THEN Wide(x.neg, MagAdd(x, y).hi, MagAdd(x, y).lo)
  ELSE IF MagLess(x, y)
  THEN Wide(y.neg, MagSub(y, x).hi, MagSub(y, x).lo)
  ELSE Wide(x.neg, MagSub(x, y).hi, MagSub(x, y).lo)

\* x > y
wide_gt(x, y) ==
  IF x.neg # y.neg THEN y.neg
  ELSE IF x.neg THEN MagLess(x, y) ELSE MagLess(y, x)

\* x & 2^bit # 0 for bit in 0..31, on the two's complement of unbounded
\* length Python gives a negative integer: that of -m is the complement of
\* m - 1
wide_bit(x, bit) ==
  LET m == IF x.neg THEN MagSub(x, [hi |-> 0, lo |-> 1]) ELSE x
      limb == IF bit >= 16 THEN m.hi ELSE m.lo
      set == (limb \div Pow2(bit % 16)) % 2 = 1
  IN IF x.neg THEN ~set ELSE set

RECURSIVE wide_radix(_, _, _)
wide_radix(s, base, acc) ==
  IF s = <<>> THEN acc
  ELSE wide_radix(Tail(s), base,
                  [hi |-> base * acc.hi
                            + (base * acc.lo + HexVal(Head(s))) \div Limb,
                   lo |-> (base * acc.lo + HexVal(Head(s))) % Limb])

\* int(s, 0) as py_int0 reads it, the value unbounded
wide_int0(s) ==
  LET signed == s # <<>> /\ Head(s) \in {"+", "-"}
      b0 == IF signed THEN Tail(s) ELSE s
      pre == IF Len(b0) >= 2 /\ b0[1] = "0" THEN b0[2] ELSE "none"
      base == IF pre \in {"x", "X"} THEN 16
              ELSE IF pre \in {"b", "B"} THEN 2
              ELSE IF pre \in {"o", "O"} \/ pre # "none" THEN 8
              ELSE 10
      body == IF pre \in {"x", "X", "b", "B", "o", "O"}
              THEN SubSeq(b0, 3, Len(b0)) ELSE b0
      v == wide_radix(body, base, [hi |-> 0, lo |-> 0])
  IN IF ~InBase(body, base) THEN [ok |-> FALSE, val |-> Wide(FALSE, 0, 0)]
     ELSE [ok |-> TRUE, val |-> Wide(signed /\ Head(s) = "-", v.hi, v.lo)]

\* lines 692-697
hex_to_i16(h) ==
  LET x == wide_int0(h).val
  IN IF ~wide_int0(h).ok THEN [err |-> "ValueError", val |-> Wide(FALSE, 0, 0)]
     ELSE IF wide_gt(x, Wide(FALSE, 0, 65535))
     THEN [err |-> "UIn_Error", val |-> Wide(FALSE, 0, 0)]
     ELSE IF wide_gt(x, Wide(FALSE, 0, 32767))
     THEN [err |-> "ok", val |-> wide_add(x, Wide(TRUE, 1, 0))]
     ELSE [err |-> "ok", val |-> x]

\* lines 698-701, of an integer
i16_to_hex(h) ==
  IF wide_bit(h, 15) THEN [err |-> "ok", val |-> wide_add(h, Wide(FALSE, 1, 0))]
  ELSE [err |-> "ok", val |-> h]

\* lines 702-707
hex_to_i32(h) ==
  LET x == wide_int0(h).val
  IN IF ~wide_int0(h).ok THEN [err |-> "ValueError", val |-> Wide(FALSE, 0, 0)]
     ELSE IF wide_gt(x, Wide(FALSE, 65535, 65535))
     THEN [err |-> "UIn_Error", val |-> Wide(FALSE, 0, 0)]
     ELSE IF wide_gt(x, Wide(FALSE, 32767, 65535))
     THEN [err |-> "ok", val |-> wide_add(x, Wide(TRUE, 65536, 0))]
     ELSE [err |-> "ok", val |-> x]

\* lines 708-711, of an integer
i32_to_hex(h) ==
  IF wide_bit(h, 31)
  THEN [err |-> "ok", val |-> wide_add(h, Wide(FALSE, 65536, 0))]
  ELSE [err |-> "ok", val |-> h]

\* lines 713-723: the bare except takes every failure of int(s, 0)
parse_bool(s) ==
  IF s = <<"t", "r", "u", "e">> \/ s = <<"T", "r", "u", "e">>
  THEN [err |-> "ok", val |-> TRUE]
  ELSE IF s = <<"f", "a", "l", "s", "e">> \/ s = <<"F", "a", "l", "s", "e">>
  THEN [err |-> "ok", val |-> FALSE]
  ELSE IF wide_int0(s).ok
  THEN [err |-> "ok",
        val |-> wide_int0(s).val.hi # 0 \/ wide_int0(s).val.lo # 0]
  ELSE [err |-> "UIn_Error", val |-> FALSE]

\* integer literals at the ends of the 16- and 32-bit ranges, signed and
\* unsigned, decimal, hexadecimal and octal, and texts that are no integers
NumberTexts ==
  {<<"0">>, <<"1">>, <<"0", "x", "7", "f", "f", "f">>, <<"0", "x", "8", "0",
   "0", "0">>, <<"0", "x", "f", "f", "f", "f">>, <<"0", "x", "1", "0", "0",
   "0", "0">>, <<"3", "2", "7", "6", "7">>, <<"3", "2", "7", "6", "8">>,
   <<"6", "5", "5", "3", "5">>, <<"6", "5", "5", "3", "6">>, <<"0", "x", "7",
   "f", "f", "f", "f", "f", "f", "f">>, <<"0", "x", "8", "0", "0", "0", "0",
   "0", "0", "0">>, <<"0", "x", "f", "f", "f", "f", "f", "f", "f", "f">>,
   <<"0", "x", "1", "0", "0", "0", "0", "0", "0", "0", "0">>, <<"2", "1",
   "4", "7", "4", "8", "3", "6", "4", "7">>, <<"2", "1", "4", "7", "4", "8",
   "3", "6", "4", "8">>, <<"4", "2", "9", "4", "9", "6", "7", "2", "9",
   "5">>, <<"4", "2", "9", "4", "9", "6", "7", "2", "9", "6">>, <<"0", "x",
   "F", "F", "F", "F">>, <<"-", "1">>, <<"-", "3", "2", "7", "6", "8">>,
   <<"-", "3", "2", "7", "6", "9">>, <<"-", "6", "5", "5", "3", "6">>, <<"-",
   "0", "x", "8", "0", "0", "0", "0", "0", "0", "0">>, <<"-", "0", "x", "8",
   "0", "0", "0", "0", "0", "0", "1">>, <<"-", "0", "x", "1", "0", "0", "0",
   "0", "0", "0", "0", "0">>, <<"x">>, <<"0", "x">>, <<>>, <<"1", ".", "5">>,
   <<"0", "1", "7">>}

\* the two words in several capitalisations, other words, and spellings of
\* zero and of other integers
BoolTexts ==
  {<<"t", "r", "u", "e">>, <<"T", "r", "u", "e">>, <<"T", "R", "U", "E">>,
   <<"t", "R", "u", "E">>, <<"f", "a", "l", "s", "e">>, <<"F", "a", "l", "s",
   "e">>, <<"F", "A", "L", "S", "E">>, <<"f", "A", "l", "S", "e">>, <<"y",
   "e", "s">>, <<"t">>, <<"0", "0">>, <<"0", "x", "0">>, <<"-", "0">>, <<"+",
   "3">>, <<"t", "r", "u", "e", "e">>}

Texts == NumberTexts \cup BoolTexts

InitConv ==
  /\ RegistryEmpty
  /\ pre_type = "None"
  /\ AtPrompt
  /\ ports = <<>>
  /\ port_map = [err |-> "none", str |-> <<>>]
  /\ CodecIdle
  /\ text \in Texts
  /\ converted = [fn |-> "none", err |-> "none", val |-> 0]
  /\ restored = [err |-> "none", val |-> 0]
  /\ StepIdle
  /\ DevIdle

Convert(fn, out) ==
  /\ converted.fn = "none"
  /\ converted' = [fn |-> fn, err |-> out.err, val |-> out.val]
  /\ UNCHANGED <<regvars, json_, load_err, dropped, pre_type, sessvars,
                 ports, port_map, codecvars, text, restored, stepvars, devvars>>

HexToI16 == Convert("hex_to_i16", hex_to_i16(text))

HexToI32 == Convert("hex_to_i32", hex_to_i32(text))

ParseBool == Convert("parse_bool", parse_bool(text))

\* the inverse applied to what the conversion returned
Restore(fn, out) ==
  /\ converted.fn = fn
  /\ converted.err = "ok"
  /\ restored.err = "none"
  /\ restored' = out
  /\ UNCHANGED <<regvars, json_, load_err, dropped, pre_type, sessvars,
                 ports, port_map, codecvars, text, converted, stepvars, devvars>>

I16ToHex == Restore("hex_to_i16", i16_to_hex(converted.val))

I32ToHex == Restore("hex_to_i32", i32_to_hex(converted.val))

NextConv == HexToI16 \/ HexToI32 \/ ParseBool \/ I16ToHex \/ I32ToHex

SpecConv == InitConv /\ [][NextConv]_vars


\* the bits of the conversion that was applied
ConvBits == IF converted.fn = "hex_to_i16" THEN 16 ELSE 32

\* 2^n for n of 16 and 32
WidePow2(n) == IF n = 16 THEN Wide(FALSE, 1, 0) ELSE Wide(FALSE, Limb, 0)

\* 2^(n-1)
WideHalf(n) ==
  IF n = 16 THEN Wide(FALSE, 0, Limb \div 2) ELSE Wide(FALSE, Limb \div 2, 0)

Negated(x) == Wide(~x.neg, x.hi, x.lo)

\* -2^(n-1) <= x <= 2^(n-1) - 1
InSignedRange(x, n) ==
  /\ wide_gt(WideHalf(n), x)
  /\ ~wide_gt(Negated(WideHalf(n)), x)

\* C22 as claimed: hex_to_i16 and hex_to_i32 either fail or return an
\* integer of the signed N-bit range; a text whose integer has a magnitude of
\* 2^N or more fails; an unsigned v below 2^N gives v below 2^(N-1) and
\* v - 2^N from there on, and i16_to_hex / i32_to_hex of that result is v.
C22_SignedConversion ==
  converted.fn \in {"hex_to_i16", "hex_to_i32"} =>
    LET n == ConvBits
        x == wide_int0(text).val
        magnitude == Wide(FALSE, x.hi, x.lo)
    IN /\ converted.err = "ok" => InSignedRange(converted.val, n)
       /\ (wide_int0(text).ok /\ ~wide_gt(WidePow2(n), magnitude)) =>
            converted.err # "ok"
       /\ (wide_int0(text).ok /\ ~x.neg /\ wide_gt(WidePow2(n), x)) =>
            /\ converted.err = "ok"
            /\ converted.val =
                 IF wide_gt(WideHalf(n), x) THEN x
                 ELSE wide_add(x, Negated(WidePow2(n)))
            /\ restored.err # "none" => restored = [err |-> "ok", val |-> x]


\* str.lower() on the letters of the two words
LowerChar(c) ==
  CASE c = "T" -> "t" [] c = "R" -> "r" [] c = "U" -> "u" [] c = "E" -> "e"
    [] c = "F" -> "f" [] c = "A" -> "a" [] c = "L" -> "l" [] c = "S" -> "s"
    [] OTHER -> c

Lower(s) == [i \in 1..Len(s) |-> LowerChar(s[i])]

\* C23 as claimed: parse_bool returns True and False for the words true and
\* false in every capitalisation, False for an integer literal of value 0
\* and True for one of another value, and raises UIn_Error for every other
\* text.
C23_ParseBool ==
  converted.fn = "parse_bool" =>
    IF Lower(text) = <<"t", "r", "u", "e">>
    THEN converted.err = "ok" /\ converted.val = TRUE
    ELSE IF Lower(text) = <<"f", "a", "l", "s", "e">>
    THEN converted.err = "ok" /\ converted.val = FALSE
    ELSE IF wide_int0(text).ok
    THEN /\ converted.err = "ok"
         /\ converted.val = (wide_int0(text).val # Wide(FALSE, 0, 0))
    ELSE converted.err = "UIn_Error"

----------------------------------------------------------------------------
(* Commands.  The body of a command yields [exc, calls, ret]: the exception  *)
(* it raised ("none" if it ran to its end), the remote operations it issued  *)
(* and its return value.  The remote side's answer to an operation is an     *)
(* input: "ok", or the typed failure it raises.                              *)

\* the handle or value a successful remote operation replies with
ReplyValue == 7

Some(v) == [some |-> TRUE, val |-> v]

Raise(e) == [exc |-> e, calls |-> <<>>, ret |-> None]

\* self.client.<op>(0, args...): the operation is issued, then the answer
\* comes back
Remote(op, args, remote) ==
  [exc |-> IF remote = "ok" THEN "none" ELSE remote,
   calls |-> <<[op |-> op, args |-> args]>>,
   ret |-> IF remote = "ok" THEN Some(ReplyValue) ELSE None]

\* self.mc_client.<op>(0, args...): without a replication engine mc_client is
\* None and the attribute lookup fails before anything is sent
McRemote(pre, op, args, remote) ==
  IF pre = "None" THEN Raise("AttributeError") ELSE Remote(op, args, remote)

\* a body that returns nothing
NoRet(out) == [out EXCEPT !.ret = None]

\* the typed failures of the standard service, lines 644-667
StandardFailures ==
  {"InvalidTableOperation", "InvalidCounterOperation",
   "InvalidMeterOperation", "InvalidRegisterOperation",
   "InvalidLearnOperation", "InvalidSwapOperation",
   "InvalidDevMgrOperation", "InvalidCrcOperation"}

\* UIn_Error and its subclasses other than the two caught before it
UInErrors ==
  {"UIn_Error", "UIn_ResourceError", "UIn_BadParamError", "UIn_BadIPv4Error",
   "UIn_BadIPv6Error", "UIn_BadMacError"}

\* the line each except clause of handle_bad_input prints
Message(exc) ==
  CASE exc = "UIn_MatchKeyError" -> "Invalid match key"
    [] exc = "UIn_RuntimeDataError" -> "Invalid runtime data"
    [] exc \in UInErrors -> "Error"
    [] exc = "InvalidTableOperation" -> "Invalid table operation"
    [] exc = "InvalidCounterOperation" -> "Invalid counter operation"
    [] exc = "InvalidMeterOperation" -> "Invalid meter operation"
    [] exc = "InvalidRegisterOperation" -> "Invalid register operation"
    [] exc = "InvalidLearnOperation" -> "Invalid learn operation"
    [] exc = "InvalidSwapOperation" -> "Invalid swap operation"
    [] exc = "InvalidDevMgrOperation" -> "Invalid device manager operation"
    [] exc = "InvalidCrcOperation" -> "Invalid crc operation"
    [] exc = "InvalidMcOperation" -> "Invalid PRE operation"

\* lines 633-668: what the caller of a decorated command sees
handle_bad_input(out) ==
  IF out.exc = "none"
  THEN [calls |-> out.calls, printed |-> <<>>, raised |-> "none",
        ret |-> out.ret]
  ELSE IF out.exc \in {"UIn_MatchKeyError", "UIn_RuntimeDataError"}
                      \cup UInErrors \cup StandardFailures
  THEN [calls |-> out.calls, printed |-> <<Message(out.exc)>>,
        raised |-> "none", ret |-> None]
  ELSE [calls |-> out.calls, printed |-> <<>>, raised |-> out.exc,
        ret |-> None]

\* lines 670-689
handle_bad_input_mc(pre, out) ==
  LET inner == handle_bad_input(out)
  IN IF pre # "None" /\ inner.raised = "InvalidMcOperation"
     THEN [inner EXCEPT !.printed = <<Message("InvalidMcOperation")>>,
                        !.raised = "none"]
     ELSE inner

\* an action resolved by its name alone
get_action_any_owner(reg, owner, action_name) ==
  LET key == <<"action", action_name>>
  IN IF key \notin DOMAIN reg.SUFFIX_LOOKUP_MAP
     THEN [some |-> FALSE, res |-> <<>>]
     ELSE [some |-> TRUE, res |-> reg.ACTIONS_[reg.SUFFIX_LOOKUP_MAP[key]]]

\* lines 128-133 and 148-153: the action of that name among owner.actions
get_action(reg, owner, action_name) ==
  LET key == <<"action", action_name>>
  IN IF key \notin DOMAIN reg.SUFFIX_LOOKUP_MAP
     THEN [some |-> FALSE, res |-> <<>>]
     ELSE LET action == reg.ACTIONS_[reg.SUFFIX_LOOKUP_MAP[key]]
          IN IF action.name \notin owner.actions
             THEN [some |-> FALSE, res |-> <<>>]
             ELSE [some |-> TRUE, res |-> action]

\* the handle arguments: int(s), or UIn_Error from the bare except
parse_handle(s) ==
  LET handle(n) == IF n.ok THEN [err |-> "ok", val |-> n.val]
                   ELSE [err |-> "UIn_Error", val |-> 0]
  IN handle(py_int(s))

\* lines 828-843
table_set_default(reg, table_name, action_name, action_params, remote) ==
  LET t == get_res(reg, table_name, "table")
      table == t.res
      a == get_action(reg, table, action_name)
      action == a.res
      \* lines 840-843
      send(runtime_data) ==
        IF runtime_data.err # "ok" THEN Raise(runtime_data.err)
        ELSE NoRet(Remote("bm_mt_set_default_action",
                          <<table.name, action.name, runtime_data.val>>,
                          remote))
  IN IF t.err # "ok" THEN Raise(t.err)
     ELSE IF ~a.some THEN Raise("UIn_Error")
     ELSE send(RuntimeAPI_parse_runtime_data(action, action_params))

\* an absent priority argument
NoPrio == [given |-> FALSE, str |-> <<>>]

\* lines 889-897: int(prio) of an absent priority is a TypeError, which the
\* bare except turns into UIn_Error like a ValueError
table_priority(table, prio) ==
  IF table.match_type \in {"ternary", "range"}
  THEN IF prio.given THEN parse_handle(prio.str)
       ELSE [err |-> "UIn_Error", val |-> 0]
  ELSE [err |-> "ok", val |-> 0]

\* a mutant of table_add: the entry is sent before the key is encoded
table_add_sends_first(reg, table_name, action_name, match_keys, action_params, prio, remote) ==
  LET t == get_res(reg, table_name, "table")
      table == t.res
      a == get_action(reg, table, action_name)
      action == a.res
      priority == table_priority(table, prio)
      encode(sent, keys) ==
        IF sent.exc # "none" THEN sent
        ELSE IF keys.err # "ok"
        THEN [sent EXCEPT !.exc = keys.err, !.ret = None]
        ELSE sent
      send(runtime_data, keys) ==
        IF runtime_data.err # "ok" THEN Raise(runtime_data.err)
        ELSE encode(Remote("bm_mt_add_entry",
                           <<table.name, match_keys, action.name,
                             runtime_data.val, [priority |-> priority.val]>>,
                           remote),
                    keys)
  IN IF t.err # "ok" THEN Raise(t.err)
     ELSE IF ~a.some THEN Raise("UIn_Error")
     ELSE IF priority.err # "ok" THEN Raise(priority.err)
     ELSE IF Len(match_keys) # Len(table.key) THEN Raise("UIn_Error")
     ELSE send(RuntimeAPI_parse_runtime_data(action, action_params),
               parse_match_key(table, match_keys))

\* lines 878-918
table_add(reg, table_name, action_name, match_keys, action_params, prio, remote) ==
  LET t == get_res(reg, table_name, "table")
      table == t.res
      a == get_action(reg, table, action_name)
      action == a.res
      priority == table_priority(table, prio)
      \* lines 905-918
      send(runtime_data, keys) ==
        IF runtime_data.err # "ok" THEN Raise(runtime_data.err)
        ELSE IF keys.err # "ok" THEN Raise(keys.err)
        ELSE Remote("bm_mt_add_entry",
                    <<table.name, keys.val, action.name, runtime_data.val,
                      [priority |-> priority.val]>>, remote)
  IN IF t.err # "ok" THEN Raise(t.err)
     ELSE IF ~a.some THEN Raise("UIn_Error")
     ELSE IF priority.err # "ok" THEN Raise(priority.err)
     ELSE IF Len(match_keys) # Len(table.key) THEN Raise("UIn_Error")
     ELSE send(RuntimeAPI_parse_runtime_data(action, action_params),
               parse_match_key(table, match_keys))

\* lines 921-942
table_set_timeout(reg, table_name, entry_handle, timeout_ms, remote) ==
  LET t == get_res(reg, table_name, "table")
      table == t.res
      h == parse_handle(entry_handle)
      ms == parse_handle(timeout_ms)
  IN IF t.err # "ok" THEN Raise(t.err)
     ELSE IF ~table.support_timeout THEN Raise("UIn_Error")
     ELSE IF h.err # "ok" THEN Raise(h.err)
     ELSE IF ms.err # "ok" THEN Raise(ms.err)
     ELSE NoRet(Remote("bm_mt_set_entry_ttl", <<table.name, h.val, ms.val>>,
                       remote))

\* lines 944-968
table_modify(reg, table_name, action_name, entry_handle, action_parameters, remote) ==
  LET t == get_res(reg, table_name, "table")
      table == t.res
      a == get_action(reg, table, action_name)
      action == a.res
      h == parse_handle(entry_handle)
      \* lines 963-968
      send(runtime_data) ==
        IF runtime_data.err # "ok" THEN Raise(runtime_data.err)
        ELSE NoRet(Remote("bm_mt_modify_entry",
                          <<table.name, h.val, action.name, runtime_data.val>>,
                          remote))
  IN IF t.err # "ok" THEN Raise(t.err)
     ELSE IF ~a.some THEN Raise("UIn_Error")
     ELSE IF h.err # "ok" THEN Raise(h.err)
     ELSE send(RuntimeAPI_parse_runtime_data(action, action_parameters))

\* lines 970-981
table_delete(reg, table_name, entry_handle, remote) ==
  LET t == get_res(reg, table_name, "table")
      table == t.res
      h == parse_handle(entry_handle)
  IN IF t.err # "ok" THEN Raise(t.err)
     ELSE IF h.err # "ok" THEN Raise(h.err)
     ELSE NoRet(Remote("bm_mt_delete_entry", <<table.name, h.val>>, remote))

\* lines 993-996
check_act_prof_ws(act_prof) ==
  IF ~act_prof.with_selection THEN "UIn_Error" ELSE "ok"

\* lines 998-1016
act_prof_create_member(reg, act_prof_name, action_name, action_params, remote) ==
  LET p == get_res(reg, act_prof_name, "action_prof")
      act_prof == p.res
      a == get_action(reg, act_prof, action_name)
      action == a.res
      \* lines 1010-1016
      send(runtime_data) ==
        IF runtime_data.err # "ok" THEN Raise(runtime_data.err)
        ELSE Remote("bm_mt_act_prof_add_member",
                    <<act_prof.name, action.name, runtime_data.val>>, remote)
  IN IF p.err # "ok" THEN Raise(p.err)
     ELSE IF ~a.some THEN Raise("UIn_Error")
     ELSE send(RuntimeAPI_parse_runtime_data(action, action_params))

\* lines 1018-1030
act_prof_delete_member(reg, act_prof_name, mbr_handle, remote) ==
  LET p == get_res(reg, act_prof_name, "action_prof")
      act_prof == p.res
      h == parse_handle(mbr_handle)
  IN IF p.err # "ok" THEN Raise(p.err)
     ELSE IF h.err # "ok" THEN Raise(h.err)
     ELSE NoRet(Remote("bm_mt_act_prof_delete_member",
                       <<act_prof.name, h.val>>, remote))

\* lines 1032-1051
act_prof_modify_member(reg, act_prof_name, action_name, mbr_handle, action_params, remote) ==
  LET p == get_res(reg, act_prof_name, "action_prof")
      act_prof == p.res
      a == get_action(reg, act_prof, action_name)
      action == a.res
      h == parse_handle(mbr_handle)
      \* lines 1046-1051
      send(runtime_data) ==
        IF runtime_data.err # "ok" THEN Raise(runtime_data.err)
        ELSE NoRet(Remote("bm_mt_act_prof_modify_member",
                          <<act_prof.name, h.val, action.name,
                            runtime_data.val>>, remote))
  IN IF p.err # "ok" THEN Raise(p.err)
     ELSE IF ~a.some THEN Raise("UIn_Error")
     ELSE IF h.err # "ok" THEN Raise(h.err)
     ELSE send(RuntimeAPI_parse_runtime_data(action, action_params))

\* lines 1190-1199
act_prof_create_group(reg, act_prof_name, remote) ==
  LET p == get_res(reg, act_prof_name, "action_prof")
      act_prof == p.res
  IN IF p.err # "ok" THEN Raise(p.err)
     ELSE IF check_act_prof_ws(act_prof) # "ok"
     THEN Raise(check_act_prof_ws(act_prof))
     ELSE NoRet(Remote("bm_mt_act_prof_create_group", <<act_prof.name>>,
                       remote))

\* lines 1202-1215
act_prof_delete_group(reg, act_prof_name, grp_handle, remote) ==
  LET p == get_res(reg, act_prof_name, "action_prof")
      act_prof == p.res
      g == parse_handle(grp_handle)
  IN IF p.err # "ok" THEN Raise(p.err)
     ELSE IF check_act_prof_ws(act_prof) # "ok"
     THEN Raise(check_act_prof_ws(act_prof))
     ELSE IF g.err # "ok" THEN Raise(g.err)
     ELSE NoRet(Remote("bm_mt_act_prof_delete_group",
                       <<act_prof.name, g.val>>, remote))

\* lines 1217-1259: add_member_to_group and remove_member_from_group differ
\* in the operation they issue only
act_prof_group_member(op, reg, act_prof_name, mbr_handle, grp_handle, remote) ==
  LET p == get_res(reg, act_prof_name, "action_prof")
      act_prof == p.res
      m == parse_handle(mbr_handle)
      g == parse_handle(grp_handle)
  IN IF p.err # "ok" THEN Raise(p.err)
     ELSE IF check_act_prof_ws(act_prof) # "ok"
     THEN Raise(check_act_prof_ws(act_prof))
     ELSE IF m.err # "ok" THEN Raise(m.err)
     ELSE IF g.err # "ok" THEN Raise(g.err)
     ELSE NoRet(Remote(op, <<act_prof.name, m.val, g.val>>, remote))

\* lines 1217-1237
act_prof_add_member_to_group(reg, act_prof_name, mbr_handle, grp_handle, remote) ==
  act_prof_group_member("bm_mt_act_prof_add_member_to_group", reg,
                        act_prof_name, mbr_handle, grp_handle, remote)

\* lines 1239-1259
act_prof_remove_member_from_group(reg, act_prof_name, mbr_handle, grp_handle, remote) ==
  act_prof_group_member("bm_mt_act_prof_remove_member_from_group", reg,
                        act_prof_name, mbr_handle, grp_handle, remote)

----------------------------------------------------------------------------
(* Meters, counters and registers, lines 1462-1632 *)

RECURSIVE Pow10(_)
Pow10(n) == IF n = 0 THEN 1 ELSE 10 * Pow10(n - 1)

\* a decimal fraction num/den in lowest power of ten
RECURSIVE decimal(_, _)
decimal(num, den) ==
  IF den > 1 /\ num % 10 = 0 THEN decimal(num \div 10, den \div 10)
  ELSE [num |-> num, den |-> den]

\* float(s) for the plain decimal notation: an optional sign, digits with at
\* most one point and at least one digit
py_float(s) ==
  LET signed == s # <<>> /\ Head(s) \in {"+", "-"}
      body == IF signed THEN Tail(s) ELSE s
      parts == split(body, ".")
      whole == parts[1]
      frac == IF Len(parts) = 2 THEN parts[2] ELSE <<>>
      well == /\ Len(parts) <= 2
              /\ whole \o frac # <<>>
              /\ \A i \in 1..Len(whole \o frac) :
                   (whole \o frac)[i] \in Range(Digits)
      value(v) ==
        [ok |-> TRUE,
         val |-> IF signed /\ Head(s) = "-" THEN [v EXCEPT !.num = 0 - @]
                 ELSE v]
  IN IF ~well THEN [ok |-> FALSE, val |-> [num |-> 0, den |-> 1]]
     ELSE value(decimal(digits_value(whole \o frac, 0), Pow10(Len(frac))))

BmMeterRateConfig(r, b) == [units_per_micros |-> r, burst_size |-> b]

\* lines 1472-1480 and 1497-1505: any failure inside the try is UIn_Error
RECURSIVE parse_rates(_, _, _)
parse_rates(rates, i, new_rates) ==
  IF i > Len(rates) THEN [err |-> "ok", val |-> new_rates]
  ELSE LET next(parts, r, b) ==
             IF Len(parts) # 2 \/ ~r.ok \/ ~b.ok
             THEN [err |-> "UIn_Error", val |-> <<>>]
             ELSE parse_rates(rates, i + 1,
                              Append(new_rates,
                                     BmMeterRateConfig(r.val, b.val)))
           pair(parts) ==
             next(parts, py_float(parts[1]), py_int(parts[2]))
       IN pair(split(rates[i], ":"))

\* lines 1462-1481
meter_array_set_rates(reg, meter_name, rates, remote) ==
  LET m == get_res(reg, meter_name, "meter_array")
      meter == m.res
      \* lines 1472-1481
      send(new_rates) ==
        IF new_rates.err # "ok" THEN Raise(new_rates.err)
        ELSE NoRet(Remote("bm_meter_array_set_rates",
                          <<meter.name, new_rates.val>>, remote))
  IN IF m.err # "ok" THEN Raise(m.err)
     ELSE IF Len(rates) # meter.rate_count THEN Raise("UIn_Error")
     ELSE send(parse_rates(rates, 1, <<>>))

\* lines 1483-1510
meter_set_rates(reg, meter_name, index, rates, remote) ==
  LET m == get_res(reg, meter_name, "meter_array")
      meter == m.res
      idx == parse_handle(index)
      \* lines 1497-1510
      send(new_rates) ==
        IF new_rates.err # "ok" THEN Raise(new_rates.err)
        ELSE IF meter.is_direct
        THEN NoRet(Remote("bm_mt_set_meter_rates",
                          <<meter.binding, idx.val, new_rates.val>>, remote))
        ELSE NoRet(Remote("bm_meter_set_rates",
                          <<meter.name, idx.val, new_rates.val>>, remote))
  IN IF m.err # "ok" THEN Raise(m.err)
     ELSE IF idx.err # "ok" THEN Raise(idx.err)
     ELSE IF Len(rates) # meter.rate_count THEN Raise("UIn_Error")
     ELSE send(parse_rates(rates, 1, <<>>))

\* lines 1512-1532
meter_get_rates(reg, meter_name, index, remote) ==
  LET m == get_res(reg, meter_name, "meter_array")
      meter == m.res
      idx == parse_handle(index)
  IN IF m.err # "ok" THEN Raise(m.err)
     ELSE IF idx.err # "ok" THEN Raise(idx.err)
     ELSE IF meter.is_direct
     THEN NoRet(Remote("bm_mt_get_meter_rates", <<meter.binding, idx.val>>,
                       remote))
     ELSE NoRet(Remote("bm_meter_get_rates", <<meter.name, idx.val>>, remote))

\* a mutant of counter_read: the two branches read each other's target
counter_read_swapped(reg, counter_name, index, remote) ==
  LET c == get_res(reg, counter_name, "counter_array")
      counter == c.res
      idx == parse_handle(index)
  IN IF c.err # "ok" THEN Raise(c.err)
     ELSE IF idx.err # "ok" THEN Raise(idx.err)
     ELSE IF counter.is_direct
     THEN Remote("bm_counter_read", <<counter.name, idx.val>>, remote)
     ELSE Remote("bm_mt_read_counter", <<counter.binding, idx.val>>, remote)

\* lines 1534-1552
counter_read(reg, counter_name, index, remote) ==
  LET c == get_res(reg, counter_name, "counter_array")
      counter == c.res
      idx == parse_handle(index)
  IN IF c.err # "ok" THEN Raise(c.err)
     ELSE IF idx.err # "ok" THEN Raise(idx.err)
     ELSE IF counter.is_direct
     THEN Remote("bm_mt_read_counter", <<counter.binding, idx.val>>, remote)
     ELSE Remote("bm_counter_read", <<counter.name, idx.val>>, remote)

\* a mutant of counter_reset: a direct counter is reset as an array
counter_reset_array_only(reg, counter_name, remote) ==
  LET c == get_res(reg, counter_name, "counter_array")
      counter == c.res
  IN IF c.err # "ok" THEN Raise(c.err)
     ELSE NoRet(Remote("bm_counter_reset_all", <<counter.name>>, remote))

\* lines 1555-1565
counter_reset(reg, counter_name, remote) ==
  LET c == get_res(reg, counter_name, "counter_array")
      counter == c.res
  IN IF c.err # "ok" THEN Raise(c.err)
     ELSE IF counter.is_direct
     THEN NoRet(Remote("bm_mt_reset_counters", <<counter.binding>>, remote))
     ELSE NoRet(Remote("bm_counter_reset_all", <<counter.name>>, remote))

\* lines 1567-1582: value goes to the remote side as the caller gave it; the
\* array branch calls bm_counter_read with the value as a further argument
counter_write(reg, counter_name, index, value, remote) ==
  LET c == get_res(reg, counter_name, "counter_array")
      counter == c.res
      idx == parse_handle(index)
  IN IF c.err # "ok" THEN Raise(c.err)
     ELSE IF idx.err # "ok" THEN Raise(idx.err)
     ELSE IF counter.is_direct
     THEN NoRet(Remote("bm_mt_write_counter",
                       <<counter.binding, idx.val, value>>, remote))
     ELSE NoRet(Remote("bm_counter_read", <<counter.name, idx.val, value>>,
                       remote))

\* the helper methods the class defines; the two argument-count helpers of
\* lines 770-780 sit inside a string literal
RuntimeAPI_methods == {"get_res", "parse_runtime_data", "check_indirect",
                       "check_indirect_ws", "check_act_prof_ws",
                       "check_has_pre", "get_mgrp", "ports_to_port_map_str",
                       "get_node_handle"}

\* self.<helper>(args, n): an AttributeError where the class has no such
\* method, else the arity check
exactly_n_args(args, n) ==
  IF "exactly_n_args" \notin RuntimeAPI_methods THEN "AttributeError"
  ELSE IF Len(args) # n THEN "UIn_Error"
  ELSE "ok"

\* lines 1604-1622
register_write(reg, args, remote) ==
  LET r == get_res(reg, args[1], "register_array")
      register == r.res
      index == parse_handle(args[2])
      value == parse_handle(args[3])
  IN IF exactly_n_args(args, 3) # "ok" THEN Raise(exactly_n_args(args, 3))
     ELSE IF r.err # "ok" THEN Raise(r.err)
     ELSE IF index.err # "ok" THEN Raise(index.err)
     ELSE IF value.err # "ok" THEN Raise(value.err)
     ELSE NoRet(Remote("bm_register_write",
                       <<register.name, index.val, value.val>>, remote))

\* lines 1624-1632
register_reset(reg, args, remote) ==
  LET r == get_res(reg, args[1], "register_array")
      register == r.res
  IN IF exactly_n_args(args, 1) # "ok" THEN Raise(exactly_n_args(args, 1))
     ELSE IF r.err # "ok" THEN Raise(r.err)
     ELSE NoRet(Remote("bm_register_reset", <<register.name>>, remote))

----------------------------------------------------------------------------
(* Multicast nodes, lines 1315-1352 *)

\* the node operation of the engine in use: the lag map goes along unless
\* the engine is SimplePre
mc_node_op(pre, op, handle, port_strs, lag_strs, remote) ==
  LET send(map_str) ==
        IF map_str[1].err # "ok" THEN Raise(map_str[1].err)
        ELSE IF map_str[2].err # "ok" THEN Raise(map_str[2].err)
        ELSE IF pre = "SimplePre"
        THEN McRemote(pre, op, <<handle, map_str[1].str>>, remote)
        ELSE McRemote(pre, op, <<handle, map_str[1].str, map_str[2].str>>,
                      remote)
  IN send([i \in 1..2 |->
             ports_to_port_map_str(IF i = 1 THEN port_strs ELSE lag_strs)])

\* lines 1315-1332
\* check_has_pre: the one place that reports a missing replication engine
check_has_pre(pre) == IF pre = "None" THEN "UIn_Error" ELSE "ok"

\* get_mgrp, then the remote call on self.mc_client
mc_mgrp_create(pre, mgrp, remote) ==
  LET g == parse_handle(mgrp)
  IN IF g.err # "ok" THEN Raise(g.err)
     ELSE McRemote(pre, "bm_mc_mgrp_create", <<g.val>>, remote)

mc_set_lag_membership(pre, lag_index, port_strs, remote) ==
  LET send(idx, map_str) ==
        IF idx.err # "ok" THEN Raise(idx.err)
        ELSE IF map_str.err # "ok" THEN Raise(map_str.err)
        ELSE NoRet(McRemote(pre, "bm_mc_set_lag_membership",
                            <<idx.val, map_str.str>>, remote))
  IN IF check_has_pre(pre) # "ok" THEN Raise(check_has_pre(pre))
     ELSE IF pre # "SimplePreLAG" THEN Raise("UIn_Error")
     ELSE send(parse_handle(lag_index), ports_to_port_map_str(port_strs))

\* the entries are fetched and printed; nothing is returned
mc_dump(pre, remote) ==
  IF check_has_pre(pre) # "ok" THEN Raise(check_has_pre(pre))
  ELSE NoRet(McRemote(pre, "bm_mc_get_entries", <<>>, remote))

mc_node_create(pre, rid, port_strs, lag_strs, remote) ==
  LET r == parse_handle(rid)
  IN IF r.err # "ok" THEN Raise(r.err)
     ELSE mc_node_op(pre, "bm_mc_node_create", r.val, port_strs, lag_strs,
                     remote)

\* lines 1340-1352
mc_node_update(pre, l1_hdl, port_strs, lag_strs, remote) ==
  LET h == parse_handle(l1_hdl)
  IN IF h.err # "ok" THEN Raise(h.err)
     ELSE NoRet(mc_node_op(pre, "bm_mc_node_update", h.val, port_strs,
                           lag_strs, remote))

----------------------------------------------------------------------------
(* The session: a RuntimeAPI object built over one configuration, taking     *)
(* commands one at a time.  After a command the variables hold what it did;  *)
(* the caller then goes on to the next command, unless the command raised.   *)

\* the configuration of the session: match tables of every match type, two
\* tables sharing their last name segment, a table whose own match_type is
\* exact while one of its key fields is ternary (the loader reads the two
\* independently, lines 275-310), action profiles with and without selector,
\* direct and array meters and counters, a register
CmdDoc ==
  [EmptyDoc EXCEPT
     !.headers = <<[name |-> "ipv4", header_type |-> "ipv4_t"],
                   [name |-> "meta", header_type |-> "meta_t"]>>,
     !.header_types =
       <<[name |-> "ipv4_t", fields |-> <<<<"dstAddr", 32>>, <<"ttl", 8>>>>],
         [name |-> "meta_t", fields |-> <<<<"port", 9>>>>]>>,
     !.actions = <<JAction(<<"set_nhop">>, 1, <<32, 9>>),
                   JAction(<<"_drop">>, 2, <<>>),
                   JAction(<<"set_ttl">>, 3, <<8>>)>>,
     !.pipelines =
       <<JPipeline(
           <<JActionProfile(<<"ecmp_prof">>, 1, TRUE),
             JActionProfile(<<"plain_prof">>, 2, FALSE)>>,
           <<[JTable(<<"ingress", ".", "ipv4_lpm">>, 1, "lpm", "simple",
                     <<<<"set_nhop">>, <<"_drop">>>>,
                     <<JKey("lpm", <<"ipv4", "dstAddr">>)>>)
                EXCEPT !.support_timeout = TRUE],
             JTable(<<"ingress", ".", "acl">>, 2, "ternary", "simple",
                    <<<<"_drop">>, <<"set_ttl">>>>,
                    <<JKey("ternary", <<"ipv4", "ttl">>)>>),
             JTable(<<"egress", ".", "acl">>, 3, "exact", "simple",
                    <<<<"_drop">>>>,
                    <<JKey("exact", <<"meta", "port">>),
                      JKey("valid", <<"ipv4">>)>>),
             JTable(<<"ingress", ".", "rng">>, 4, "range", "simple",
                    <<<<"_drop">>>>, <<JKey("range", <<"ipv4", "ttl">>)>>),
             JTable(<<"ingress", ".", "mix">>, 7, "exact", "simple",
                    <<<<"_drop">>>>,
                    <<JKey("exact", <<"meta", "port">>),
                      JKey("ternary", <<"ipv4", "ttl">>)>>),
             [JTable(<<"ingress", ".", "ecmp">>, 5, "exact", "indirect_ws",
                     <<<<"set_nhop">>>>, <<>>)
                EXCEPT !.has_action_profile = TRUE,
                       !.action_profile = <<"ecmp_prof">>],
             [JTable(<<"ingress", ".", "ind">>, 6, "exact", "indirect",
                     <<<<"_drop">>>>, <<>>)
                EXCEPT !.has_action_profile = TRUE,
                       !.action_profile = <<"plain_prof">>]>>)>>,
     !.meter_arrays =
       <<JMeter(<<"m_direct">>, 1, TRUE, <<"ingress", ".", "ipv4_lpm">>, 2),
         JMeter(<<"m_array">>, 2, FALSE, <<>>, 2)>>,
     !.counter_arrays =
       <<JCounter(<<"c_direct">>, 1, TRUE, <<"ingress", ".", "ipv4_lpm">>),
         JCounter(<<"c_array">>, 2, FALSE, <<>>)>>,
     !.register_arrays = <<JRegister(<<"reg">>, 1)>>]

PreType == {"None", "SimplePre", "SimplePreLAG"}

\* lines 743-757: the object after __init__ has loaded the configuration
Init ==
  /\ LET Loaded(r) ==
           /\ TABLES = r.reg.TABLES
           /\ ACTION_PROFS = r.reg.ACTION_PROFS
           /\ ACTIONS_ = r.reg.ACTIONS_
           /\ METER_ARRAYS = r.reg.METER_ARRAYS
           /\ COUNTER_ARRAYS = r.reg.COUNTER_ARRAYS
           /\ REGISTER_ARRAYS = r.reg.REGISTER_ARRAYS
           /\ CUSTOM_CRC_CALCS = r.reg.CUSTOM_CRC_CALCS
           /\ SUFFIX_LOOKUP_MAP = r.reg.SUFFIX_LOOKUP_MAP
           /\ load_err = r.err
     IN Loaded(load_json_str(EmptyRegistry, CmdDoc))
  /\ json_ = CmdDoc
  /\ dropped = FALSE
  /\ pre_type \in PreType
  /\ AtPrompt
  /\ ports = <<>>
  /\ port_map = [err |-> "none", str |-> <<>>]
  /\ CodecIdle
  /\ ConvIdle
  /\ StepIdle
  /\ DevIdle

\* the arguments callers hand in: names in full and as suffixes, an
\* ambiguous suffix, an unknown name; numbers well and ill formed
TableNames ==
  {<<"ingress", ".", "ipv4_lpm">>, <<"ipv4_lpm">>,
   <<"ingress", ".", "acl">>, <<"egress", ".", "acl">>, <<"acl">>,
   <<"rng">>, <<"mix">>, <<"ecmp">>, <<"nope">>}

ActionNames == {<<"set_nhop">>, <<"_drop">>, <<"set_ttl">>, <<"nope">>}

ProfNames == {<<"ecmp_prof">>, <<"plain_prof">>, <<"nope">>}

MeterNames == {<<"m_direct">>, <<"m_array">>, <<"nope">>}

CounterNames == {<<"c_direct">>, <<"c_array">>, <<"nope">>}

Handles == {<<"0">>, <<"1", "2">>, <<"x">>}

\* key fields: well formed for each match type, a prefix length and a
\* validity flag that are no numbers, an octet above 255, a missing or
\* inverted part, a field too many or too few, an exact field with a
\* ternary one
MatchKeys ==
  {<<>>, <<<<"1", "0", ".", "0", ".", "0", ".", "1", "/", "2", "4">>>>,
   <<<<"1", "0", ".", "0", ".", "0", ".", "1", "/", "x">>>>,
   <<<<"3", "0", "0", ".", "0", ".", "0", ".", "1", "/", "8">>>>,
   <<<<"1", "0", ".", "0", ".", "0", ".", "1">>>>,
   <<<<"1", ".", "2", ".", "3", "/", "8">>>>,
   <<<<"5", "&&&", "2", "5", "5">>>>, <<<<"5", "&&&", "x">>>>, <<<<"5">>>>,
   <<<<"1", "->", "5">>>>, <<<<"5", "->", "1">>>>, <<<<"3">>, <<"1">>>>,
   <<<<"3">>, <<"x">>>>, <<<<"3">>>>, <<<<"7", "0", "0">>, <<"1">>>>,
   <<<<"3">>, <<"5", "&&&", "2", "5", "5">>>>}

\* action data: of the right and of the wrong count, a value too wide for
\* its field, an octet above 255
ActionParams ==
  {<<>>, <<<<"1", "0", ".", "0", ".", "0", ".", "2">>, <<"1">>>>,
   <<<<"1", "0", ".", "0", ".", "0", ".", "2">>>>,
   <<<<"1", "0", ".", "0", ".", "0", ".", "2">>, <<"5", "1", "2">>>>,
   <<<<"3", "0", "0", ".", "0", ".", "0", ".", "1">>, <<"1">>>>,
   <<<<"7">>>>, <<<<"7", "0", "0">>>>, <<<<"0", "x", "1", "f">>>>}

Prios == {NoPrio, [given |-> TRUE, str |-> <<"1">>],
          [given |-> TRUE, str |-> <<"x">>]}

Rates ==
  {<<>>, <<<<"1", ".", "5", ":", "1", "0">>>>,
   <<<<"1", ".", "5", ":", "1", "0">>, <<"2", ":", "2", "0">>>>,
   <<<<"1", ".", "5", ":", "1", "0">>, <<"x", ":", "1">>>>,
   <<<<"1", ".", "5", ":", "1", "0">>, <<"2">>>>,
   <<<<"1", ".", "5", ":", "1", "0">>, <<"2", ":", "y">>>>,
   <<<<"1", ":", "2", ":", "3">>, <<"2", ":", "2", "0">>>>}

PortLists ==
  {<<>>, <<<<"0">>, <<"2">>>>, <<<<"1">>, <<"1">>>>, <<<<"x">>>>}

LagLists == {<<>>, <<<<"1">>>>, <<<<"-", "1">>>>}

Lines ==
  {<<>>, <<<<"reg">>>>, <<<<"reg">>, <<"0">>, <<"5">>>>,
   <<<<"reg">>, <<"x">>, <<"5">>>>, <<<<"nope">>>>}

\* what the remote side answers
TableOutcomes == {"ok", "InvalidTableOperation"}

StandardOutcomes == {"ok"} \cup StandardFailures

McOutcomes == {"ok", "InvalidMcOperation"}

MeterOutcomes == {"ok", "InvalidMeterOperation"}

CounterOutcomes == {"ok", "InvalidCounterOperation"}

RegisterOutcomes == {"ok", "InvalidRegisterOperation"}

\* the command name(args) is called at the prompt and ends as out tells
Run(name, args, remote, out) ==
  /\ cmd' = [name |-> name, args |-> args, remote |-> remote]
  /\ calls' = out.calls
  /\ printed' = out.printed
  /\ raised' = out.raised
  /\ ret' = out.ret
  /\ UNCHANGED <<regvars, json_, load_err, dropped, pre_type, ports, port_map, codecvars, convvars, stepvars, devvars>>

TableSetDefault ==
  /\ cmd.name = "none"
  /\ \E table_name \in TableNames, action_name \in ActionNames, action_params
        \in ActionParams, remote \in TableOutcomes :
       Run("table_set_default", <<table_name, action_name, action_params>>,
           remote, handle_bad_input(table_set_default(CurrentRegistry,
           table_name, action_name, action_params, remote)))

TableAdd ==
  /\ cmd.name = "none"
  /\ \E table_name \in TableNames, action_name \in ActionNames, match_keys
        \in MatchKeys, action_params \in ActionParams, prio \in Prios, remote
        \in TableOutcomes :
       Run("table_add", <<table_name, action_name, match_keys,
           action_params, prio>>, remote,
           handle_bad_input(table_add(CurrentRegistry, table_name,
           action_name, match_keys, action_params, prio, remote)))

TableSetTimeout ==
  /\ cmd.name = "none"
  /\ \E table_name \in TableNames, entry_handle \in Handles, timeout_ms \in
        Handles, remote \in TableOutcomes :
       Run("table_set_timeout", <<table_name, entry_handle, timeout_ms>>,
           remote, handle_bad_input(table_set_timeout(CurrentRegistry,
           table_name, entry_handle, timeout_ms, remote)))

TableModify ==
  /\ cmd.name = "none"
  /\ \E table_name \in TableNames, action_name \in ActionNames, entry_handle
        \in Handles, action_parameters \in ActionParams, remote \in
        TableOutcomes :
       Run("table_modify", <<table_name, action_name, entry_handle,
           action_parameters>>, remote,
           handle_bad_input(table_modify(CurrentRegistry, table_name,
           action_name, entry_handle, action_parameters, remote)))

TableDelete ==
  /\ cmd.name = "none"
  /\ \E table_name \in TableNames, entry_handle \in Handles, remote \in
        StandardOutcomes :
       Run("table_delete", <<table_name, entry_handle>>, remote,
           handle_bad_input(table_delete(CurrentRegistry, table_name,
           entry_handle, remote)))

ActProfCreateMember ==
  /\ cmd.name = "none"
  /\ \E act_prof_name \in ProfNames, action_name \in ActionNames,
        action_params \in ActionParams, remote \in TableOutcomes :
       Run("act_prof_create_member", <<act_prof_name, action_name,
           action_params>>, remote,
           handle_bad_input(act_prof_create_member(CurrentRegistry,
           act_prof_name, action_name, action_params, remote)))

ActProfDeleteMember ==
  /\ cmd.name = "none"
  /\ \E act_prof_name \in ProfNames, mbr_handle \in Handles, remote \in
        TableOutcomes :
       Run("act_prof_delete_member", <<act_prof_name, mbr_handle>>, remote,
           handle_bad_input(act_prof_delete_member(CurrentRegistry,
           act_prof_name, mbr_handle, remote)))

ActProfModifyMember ==
  /\ cmd.name = "none"
  /\ \E act_prof_name \in ProfNames, action_name \in ActionNames, mbr_handle
        \in Handles, action_params \in ActionParams, remote \in TableOutcomes
        :
       Run("act_prof_modify_member", <<act_prof_name, action_name,
           mbr_handle, action_params>>, remote,
           handle_bad_input(act_prof_modify_member(CurrentRegistry,
           act_prof_name, action_name, mbr_handle, action_params, remote)))

ActProfCreateGroup ==
  /\ cmd.name = "none"
  /\ \E act_prof_name \in ProfNames, remote \in TableOutcomes :
       Run("act_prof_create_group", <<act_prof_name>>, remote,
           handle_bad_input(act_prof_create_group(CurrentRegistry,
           act_prof_name, remote)))

ActProfDeleteGroup ==
  /\ cmd.name = "none"
  /\ \E act_prof_name \in ProfNames, grp_handle \in Handles, remote \in
        TableOutcomes :
       Run("act_prof_delete_group", <<act_prof_name, grp_handle>>, remote,
           handle_bad_input(act_prof_delete_group(CurrentRegistry,
           act_prof_name, grp_handle, remote)))

ActProfAddMemberToGroup ==
  /\ cmd.name = "none"
  /\ \E act_prof_name \in ProfNames, mbr_handle \in Handles, grp_handle \in
        Handles, remote \in TableOutcomes :
       Run("act_prof_add_member_to_group", <<act_prof_name, mbr_handle,
           grp_handle>>, remote,
           handle_bad_input(act_prof_add_member_to_group(CurrentRegistry,
           act_prof_name, mbr_handle, grp_handle, remote)))

ActProfRemoveMemberFromGroup ==
  /\ cmd.name = "none"
  /\ \E act_prof_name \in ProfNames, mbr_handle \in Handles, grp_handle \in
        Handles, remote \in TableOutcomes :
       Run("act_prof_remove_member_from_group", <<act_prof_name,
           mbr_handle, grp_handle>>, remote,
           handle_bad_input(act_prof_remove_member_from_group(CurrentRegistry,
           act_prof_name, mbr_handle, grp_handle, remote)))

MeterArraySetRates ==
  /\ cmd.name = "none"
  /\ \E meter_name \in MeterNames, rates \in Rates, remote \in MeterOutcomes
        :
       Run("meter_array_set_rates", <<meter_name, rates>>, remote,
           handle_bad_input(meter_array_set_rates(CurrentRegistry,
           meter_name, rates, remote)))

MeterSetRates ==
  /\ cmd.name = "none"
  /\ \E meter_name \in MeterNames, index \in Handles, rates \in Rates, remote
        \in MeterOutcomes :
       Run("meter_set_rates", <<meter_name, index, rates>>, remote,
           handle_bad_input(meter_set_rates(CurrentRegistry, meter_name,
           index, rates, remote)))

MeterGetRates ==
  /\ cmd.name = "none"
  /\ \E meter_name \in MeterNames, index \in Handles, remote \in
        MeterOutcomes :
       Run("meter_get_rates", <<meter_name, index>>, remote,
           handle_bad_input(meter_get_rates(CurrentRegistry, meter_name,
           index, remote)))

CounterRead ==
  /\ cmd.name = "none"
  /\ \E counter_name \in CounterNames, index \in Handles, remote \in
        CounterOutcomes :
       Run("counter_read", <<counter_name, index>>, remote,
           handle_bad_input(counter_read(CurrentRegistry, counter_name,
           index, remote)))

CounterReset ==
  /\ cmd.name = "none"
  /\ \E counter_name \in CounterNames, remote \in CounterOutcomes :
       Run("counter_reset", <<counter_name>>, remote,
           handle_bad_input(counter_reset(CurrentRegistry, counter_name,
           remote)))

CounterWrite ==
  /\ cmd.name = "none"
  /\ \E counter_name \in CounterNames, index \in Handles, value \in Handles,
        remote \in CounterOutcomes :
       Run("counter_write", <<counter_name, index, value>>, remote,
           handle_bad_input(counter_write(CurrentRegistry, counter_name,
           index, value, remote)))

RegisterWrite ==
  /\ cmd.name = "none"
  /\ \E line \in Lines, remote \in RegisterOutcomes :
       Run("register_write", <<line>>, remote,
           handle_bad_input(register_write(CurrentRegistry, line, remote)))

RegisterReset ==
  /\ cmd.name = "none"
  /\ \E line \in Lines, remote \in RegisterOutcomes :
       Run("register_reset", <<line>>, remote,
           handle_bad_input(register_reset(CurrentRegistry, line, remote)))

McNodeCreate ==
  /\ cmd.name = "none"
  /\ \E rid \in Handles, port_strs \in PortLists, lag_strs \in LagLists,
        remote \in McOutcomes :
       Run("mc_node_create", <<rid, port_strs, lag_strs>>, remote,
           handle_bad_input_mc(pre_type, mc_node_create(pre_type, rid,
           port_strs, lag_strs, remote)))

McNodeUpdate ==
  /\ cmd.name = "none"
  /\ \E l1_hdl \in Handles, port_strs \in PortLists, lag_strs \in LagLists,
        remote \in McOutcomes :
       Run("mc_node_update", <<l1_hdl, port_strs, lag_strs>>, remote,
           handle_bad_input_mc(pre_type, mc_node_update(pre_type, l1_hdl,
           port_strs, lag_strs, remote)))

McMgrpCreate ==
  /\ cmd.name = "none"
  /\ \E mgrp \in Handles, remote \in McOutcomes :
       Run("mc_mgrp_create", <<mgrp>>, remote,
           handle_bad_input_mc(pre_type, mc_mgrp_create(pre_type, mgrp,
           remote)))

McSetLagMembership ==
  /\ cmd.name = "none"
  /\ \E lag_index \in Handles, port_strs \in PortLists,
        remote \in McOutcomes :
       Run("mc_set_lag_membership", <<lag_index, port_strs>>, remote,
           handle_bad_input_mc(pre_type, mc_set_lag_membership(pre_type,
           lag_index, port_strs, remote)))

McDump ==
  /\ cmd.name = "none"
  /\ \E remote \in McOutcomes :
       Run("mc_dump", <<>>, remote,
           handle_bad_input_mc(pre_type, mc_dump(pre_type, remote)))

\* the caller takes the outcome and comes back with the next command; an
\* exception that left the command ends the run of commands
Prompt ==
  /\ cmd.name # "none"
  /\ raised = "none"
  /\ cmd' = NoCmd
  /\ calls' = <<>>
  /\ printed' = <<>>
  /\ raised' = "none"
  /\ ret' = None
  /\ UNCHANGED <<regvars, json_, load_err, dropped, pre_type, ports, port_map, codecvars, convvars, stepvars, devvars>>

Next ==
  \/ TableSetDefault
  \/ TableAdd
  \/ TableSetTimeout
  \/ TableModify
  \/ TableDelete
  \/ ActProfCreateMember
  \/ ActProfDeleteMember
  \/ ActProfModifyMember
  \/ ActProfCreateGroup
  \/ ActProfDeleteGroup
  \/ ActProfAddMemberToGroup
  \/ ActProfRemoveMemberFromGroup
  \/ MeterArraySetRates
  \/ MeterSetRates
  \/ MeterGetRates
  \/ CounterRead
  \/ CounterReset
  \/ CounterWrite
  \/ RegisterWrite
  \/ RegisterReset
  \/ McNodeCreate
  \/ McNodeUpdate
  \/ McMgrpCreate
  \/ McSetLagMembership
  \/ McDump
  \/ Prompt

Spec == Init /\ [][Next]_vars

----------------------------------------------------------------------------
(* Reloading the configuration *)

\* what a path names: no file, or a file holding a document (json_ok tells
\* whether json.loads takes its text)
ConfigFile(isfile, doc) == [isfile |-> isfile, doc |-> doc]

\* a configuration with one table named acl
NextDoc ==
  [EmptyDoc EXCEPT
     !.actions = <<JAction(<<"_drop">>, 1, <<>>)>>,
     !.pipelines =
       <<JPipeline(<<>>,
           <<JTable(<<"ingress", ".", "acl">>, 1, "exact", "simple",
                    <<<<"_drop">>>>, <<>>)>>)>>]

ConfigFiles ==
  {ConfigFile(FALSE, EmptyDoc), ConfigFile(TRUE, BadJsonDoc),
   ConfigFile(TRUE, NextDoc), ConfigFile(TRUE, KeyedDoc),
   ConfigFile(TRUE, UndeclaredActionDoc)}

SwapOutcomes == {"ok", "InvalidSwapOperation"}

\* the registry is rebuilt before the remote side is asked
load_new_config_file_eager(reg, file, remote) ==
  LET sent == Remote("bm_load_new_config", <<file.doc>>, remote)
      loaded == load_json_str(reg, file.doc)
  IN IF ~file.isfile \/ ~file.doc.json_ok
     THEN [out |-> Raise("UIn_Error"), reg |-> reg, loaded |-> FALSE,
           err |-> "none"]
     ELSE [out |-> [exc |-> IF sent.exc # "none" THEN sent.exc
                            ELSE IF loaded.err = "ok" THEN "none"
                            ELSE loaded.err,
                    calls |-> sent.calls, ret |-> None],
           reg |-> loaded.reg, loaded |-> TRUE, err |-> loaded.err]

\* the body of load_new_config_file: its outcome, the registry it leaves,
\* whether load_json_str ran and how that ended
load_new_config_file(reg, file, remote) ==
  LET sent == Remote("bm_load_new_config", <<file.doc>>, remote)
      loaded == load_json_str(reg, file.doc)
  IN IF ~file.isfile \/ ~file.doc.json_ok
     THEN [out |-> Raise("UIn_Error"), reg |-> reg, loaded |-> FALSE,
           err |-> "none"]
     ELSE IF sent.exc # "none"
     THEN [out |-> NoRet(sent), reg |-> reg, loaded |-> FALSE,
           err |-> "none"]
     ELSE [out |-> [exc |-> IF loaded.err = "ok" THEN "none"
                            ELSE loaded.err,
                    calls |-> sent.calls, ret |-> None],
           reg |-> loaded.reg, loaded |-> TRUE, err |-> loaded.err]

swap_configs(remote) == NoRet(Remote("bm_swap_configs", <<>>, remote))

\* the outcome of a command that may have reloaded the registry
Reloaded(name, args, remote, r, out) ==
  /\ cmd' = [name |-> name, args |-> args, remote |-> remote]
  /\ calls' = out.calls
  /\ printed' = out.printed
  /\ raised' = out.raised
  /\ ret' = out.ret
  /\ SetRegistry(r.reg)
  /\ json_' = IF r.loaded THEN args[1].doc ELSE json_
  /\ load_err' = IF r.loaded THEN r.err ELSE load_err
  /\ dropped' = IF r.loaded
                THEN \E key \in DOMAIN SUFFIX_LOOKUP_MAP :
                       key \notin DocKeys(args[1].doc)
                ELSE dropped

\* a configuration the device accepts is held beside the one it runs
LoadNewConfigFile ==
  /\ cmd.name = "none"
  /\ \E file \in ConfigFiles, remote \in SwapOutcomes :
       LET r == load_new_config_file(CurrentRegistry, file, remote)
       IN /\ Reloaded("load_new_config_file", <<file>>, remote, r,
                      handle_bad_input(r.out))
          /\ dev_staged' = IF r.out.calls # <<>> /\ remote = "ok"
                           THEN [some |-> TRUE, doc |-> file.doc]
                           ELSE dev_staged
  /\ UNCHANGED <<dev_running, pre_type, ports, port_map, codecvars,
                 convvars, stepvars>>

\* the device swaps in the configuration it holds; it has nothing to swap
\* in when it holds none
SwapConfigs ==
  /\ cmd.name = "none"
  /\ \E remote \in SwapOutcomes :
       /\ remote = "ok" => dev_staged.some
       /\ LET out == handle_bad_input(swap_configs(remote))
          IN /\ cmd' = [name |-> "swap_configs", args |-> <<>>,
                        remote |-> remote]
             /\ calls' = out.calls
             /\ printed' = out.printed
             /\ raised' = out.raised
             /\ ret' = out.ret
       /\ dev_running' = IF remote = "ok" THEN dev_staged.doc
                         ELSE dev_running
       /\ dev_staged' = IF remote = "ok" THEN NoConfig ELSE dev_staged
  /\ UNCHANGED <<regvars, json_, load_err, dropped, pre_type, ports,
                 port_map, codecvars, convvars, stepvars>>

NextReload ==
  \/ LoadNewConfigFile
  \/ SwapConfigs
  \/ TableDelete
  \/ TableSetTimeout
  \/ Prompt

SpecReload == Init /\ [][NextReload]_vars

----------------------------------------------------------------------------
(* Validation and the remote side *)

C1Commands ==
  {"table_add", "table_modify", "table_set_default", "table_delete",
   "table_set_timeout", "act_prof_create_member", "act_prof_modify_member",
   "act_prof_create_group", "act_prof_delete_group",
   "act_prof_add_member_to_group", "act_prof_remove_member_from_group",
   "meter_set_rates", "meter_array_set_rates", "counter_read",
   "counter_write", "mc_node_create", "mc_node_update"}

\* the command ended on a check of its arguments: a report of a UIn_ error,
\* or an exception of the argument conversions
ValidationFailed ==
  \/ printed \in {<<"Invalid match key">>, <<"Invalid runtime data">>,
                  <<"Error">>}
  \/ raised \in {"ValueError", "struct.error", "IndexError"}

\* C1: a command of the list whose resolution, count, handle or encoding
\* check failed has issued no remote operation; a command issues one remote
\* operation at most, and only when none of its checks failed.
C1_ValidationBeforeRemote ==
  cmd.name \in C1Commands =>
    /\ ValidationFailed => calls = <<>>
    /\ calls # <<>> => ~ValidationFailed
    /\ Len(calls) <= 1

\* table_add whose last check, the encoding of the match key, failed after
\* the table, the action, the priority, the counts and the action data
\* passed: nothing was sent
C1_Witness ==
  /\ cmd.name = "table_add"
  /\ printed = <<"Invalid match key">>
  /\ raised = "none"
  /\ calls = <<>>

\* C2 as claimed: every command returns normally to its caller, with no
\* exception leaving it, after at most one user-facing message.
C2_CommandsReturnNormally ==
  cmd.name # "none" => raised = "none" /\ Len(printed) <= 1

----------------------------------------------------------------------------
(* Direct and array resources *)

\* the counter a counter command resolved, if it did
ResolvedCounter == get_res(CurrentRegistry, cmd.args[1], "counter_array")

\* the meter a meter command resolved, if it did
ResolvedMeter == get_res(CurrentRegistry, cmd.args[1], "meter_array")

\* C7: counter_read on a resolvable counter with an integer index issues
\* exactly one remote read: for a direct counter the table's per-entry read
\* addressed by the binding, for any other the array read addressed by the
\* counter's own name.
C7_CounterReadTarget ==
  (/\ cmd.name = "counter_read"
   /\ ResolvedCounter.err = "ok"
   /\ py_int(cmd.args[2]).ok)
  => LET counter == ResolvedCounter.res
         index == py_int(cmd.args[2]).val
     IN /\ Len(calls) = 1
        /\ counter.is_direct =>
             calls[1] = [op |-> "bm_mt_read_counter",
                         args |-> <<counter.binding, index>>]
        /\ ~counter.is_direct =>
             calls[1] = [op |-> "bm_counter_read",
                         args |-> <<counter.name, index>>]

\* counter_read c_direct 12: the read went to the bound table
C7_Witness ==
  /\ cmd.name = "counter_read"
  /\ cmd.args = <<<<"c_direct">>, <<"1", "2">>>>
  /\ calls = <<[op |-> "bm_mt_read_counter",
                args |-> <<<<"ingress", ".", "ipv4_lpm">>, 12>>]>>

MeterCommands == {"meter_array_set_rates", "meter_set_rates",
                  "meter_get_rates"}

CounterCommands == {"counter_read", "counter_reset", "counter_write"}

\* the operations addressed by a table name
TableVariants ==
  {"bm_mt_set_meter_rates", "bm_mt_get_meter_rates", "bm_mt_read_counter",
   "bm_mt_reset_counters", "bm_mt_write_counter"}

\* the command reached the remote side for a resource that is direct
ReachedDirect(commands) ==
  /\ cmd.name \in commands
  /\ calls # <<>>
  /\ \/ cmd.name \in MeterCommands /\ ResolvedMeter.res.is_direct
     \/ cmd.name \in CounterCommands /\ ResolvedCounter.res.is_direct

\* the binding of the resource the command resolved
ResolvedBinding ==
  IF cmd.name \in MeterCommands THEN ResolvedMeter.res.binding
  ELSE ResolvedCounter.res.binding

C9_CounterWriteArray ==
  (/\ cmd.name = "counter_write"
   /\ ResolvedCounter.err = "ok"
   /\ ~ResolvedCounter.res.is_direct
   /\ py_int(cmd.args[2]).ok)
  => /\ Len(calls) = 1
     /\ calls[1].op = "bm_counter_write"
     /\ calls[1].args = <<ResolvedCounter.res.name, py_int(cmd.args[2]).val,
                          cmd.args[3]>>
     /\ \A i \in 1..Len(calls) : calls[i].op # "bm_counter_read"
     /\ raised = "none"

----------------------------------------------------------------------------
(* Table entries: counts, action sets, priorities *)

\* the table a table command resolved, if it did
ResolvedTable == get_res(CurrentRegistry, cmd.args[1], "table")

\* the action table_add resolved within that table, if it did
AddedAction == get_action(CurrentRegistry, ResolvedTable.res, cmd.args[2])

\* table_add passed the resolution of the table and of the action and the
\* extraction of the priority, and was given as many action parameters as
\* the action declares
AddReachedKeyCount ==
  /\ cmd.name = "table_add"
  /\ ResolvedTable.err = "ok"
  /\ AddedAction.some
  /\ table_priority(ResolvedTable.res, cmd.args[5]).err = "ok"
  /\ Len(cmd.args[4]) = Len(AddedAction.res.runtime_data)

\* C15 as claimed: table_add on a resolvable table with a valid action and
\* the right number of action parameters, given a number of match fields
\* other than the table's number of key fields, is reported as a match-key
\* error and issues no remote call; given the right number of fields that
\* encode, the entry is sent and the handle the remote side answers is
\* returned.
C15_KeyCountMismatch ==
  AddReachedKeyCount =>
    IF Len(cmd.args[3]) # Len(ResolvedTable.res.key)
    THEN /\ printed = <<"Invalid match key">>
         /\ calls = <<>>
         /\ ret = None
    ELSE (/\ parse_match_key(ResolvedTable.res, cmd.args[3]).err = "ok"
          /\ parse_runtime_data(AddedAction.res, cmd.args[4]).err = "ok"
          /\ cmd.remote = "ok")
         => /\ Len(calls) = 1
            /\ calls[1].op = "bm_mt_add_entry"
            /\ ret = Some(ReplyValue)

TableActionCommands == {"table_add", "table_modify", "table_set_default"}

ProfActionCommands == {"act_prof_create_member", "act_prof_modify_member"}

\* the table or the action profile whose action the command sets
ActionOwner ==
  IF cmd.name \in TableActionCommands THEN ResolvedTable
  ELSE get_res(CurrentRegistry, cmd.args[1], "action_prof")

\* the action name of the command resolves to an action of the registry
ActionExists == <<"action", cmd.args[2]>> \in DOMAIN CurrentRegistry.SUFFIX_LOOKUP_MAP

\* the full name of that action
ActionFullName ==
  CurrentRegistry.ACTIONS_[CurrentRegistry.SUFFIX_LOOKUP_MAP[<<"action", cmd.args[2]>>]].name

\* C16: table_add, table_modify and table_set_default on a resolvable table,
\* and act_prof_create_member and act_prof_modify_member on a resolvable
\* action profile, reach the remote side only with an action name that
\* resolves to an action whose full name is in the action set of that table
\* or profile; with an action that exists in the registry but is not in that
\* set the command is reported as an error and issues no remote call.
C16_ActionWithinOwner ==
  (/\ cmd.name \in TableActionCommands \cup ProfActionCommands
   /\ ActionOwner.err = "ok")
  => /\ calls # <<>> =>
          ActionExists /\ ActionFullName \in ActionOwner.res.actions
     /\ (ActionExists /\ ActionFullName \notin ActionOwner.res.actions) =>
          /\ printed = <<"Error">>
          /\ raised = "none"
          /\ calls = <<>>
          /\ ret = None

\* table_set_default of set_nhop, an action of the registry that the table
\* ingress.acl does not have, with the two parameters set_nhop declares:
\* reported, nothing sent
C16_Witness ==
  /\ cmd.name = "table_set_default"
  /\ cmd.args[1] = <<"ingress", ".", "acl">>
  /\ cmd.args[2] = <<"set_nhop">>
  /\ Len(cmd.args[3]) = 2
  /\ ActionExists
  /\ ActionFullName \notin ResolvedTable.res.actions
  /\ printed = <<"Error">>
  /\ calls = <<>>

\* the action the command resolved within its table or profile, if it did
OwnedAction == get_action(CurrentRegistry, ActionOwner.res, cmd.args[2])

\* the action parameters the command was given
GivenParams ==
  IF cmd.name \in {"table_set_default", "act_prof_create_member"}
  THEN cmd.args[3] ELSE cmd.args[4]

\* the command passed every check that precedes the count of the action
\* parameters: the table or profile, the action, and the priority and the
\* key count of table_add or the handle of the two modify commands
ReachedParamCount ==
  /\ cmd.name \in TableActionCommands \cup ProfActionCommands
  /\ ActionOwner.err = "ok"
  /\ OwnedAction.some
  /\ cmd.name = "table_add" =>
       /\ table_priority(ResolvedTable.res, cmd.args[5]).err = "ok"
       /\ Len(cmd.args[3]) = Len(ResolvedTable.res.key)
  /\ cmd.name \in {"table_modify", "act_prof_modify_member"} =>
       parse_handle(cmd.args[3]).err = "ok"

\* the action data of the one remote call of the command
SentRuntimeData ==
  calls[1].args[IF cmd.name \in {"table_set_default",
                                 "act_prof_create_member"} THEN 3 ELSE 4]

\* C17 as claimed: for the five commands that set an action, a number of
\* action parameters other than the one the resolved action declares is
\* reported as invalid runtime data and issues no remote call; with the
\* declared number, the i-th parameter is sent encoded at the i-th declared
\* bit width.
C17_ParamCountMismatch ==
  ReachedParamCount =>
    LET declared == OwnedAction.res.runtime_data
    IN /\ Len(GivenParams) # Len(declared) =>
            /\ printed = <<"Invalid runtime data">>
            /\ calls = <<>>
       /\ (Len(GivenParams) = Len(declared) /\ calls # <<>>) =>
            SentRuntimeData =
              [i \in 1..Len(declared) |->
                 encode_field(GivenParams[i], declared[i][2],
                              "UIn_RuntimeDataError").val]

\* the key of the table has a ternary or a range field
HasTernaryOrRangeField(table) ==
  \E i \in 1..Len(table.key) : table.key[i][2] \in {"ternary", "range"}

\* C18 as claimed: table_add on a resolvable table with a ternary or range
\* key field, whatever its other fields are, and an action of the table:
\* without a priority, or with one that is no integer, it is reported as an
\* error and issues no remote call; with one that is an integer, an entry
\* that is sent carries that integer as its priority.
C18_PriorityRequired ==
  (/\ cmd.name = "table_add"
   /\ ResolvedTable.err = "ok"
   /\ HasTernaryOrRangeField(ResolvedTable.res)
   /\ AddedAction.some)
  => LET prio == cmd.args[5]
     IN /\ (~prio.given \/ ~py_int(prio.str).ok) =>
             /\ printed # <<>> \/ raised # "none"
             /\ calls = <<>>
        /\ (prio.given /\ py_int(prio.str).ok /\ calls # <<>>) =>
             calls[1].args[5] = [priority |-> py_int(prio.str).val]

\* C19 as claimed: table_add on a resolvable table without ternary or range
\* key field, with an action of the table, sends priority 0 with every entry
\* it sends, and a call that supplies a priority is rejected: it issues no
\* remote call and ends in a report or an exception.
C19_NoPriorityAccepted ==
  (/\ cmd.name = "table_add"
   /\ ResolvedTable.err = "ok"
   /\ ~HasTernaryOrRangeField(ResolvedTable.res)
   /\ AddedAction.some)
  => /\ calls # <<>> => calls[1].args[5] = [priority |-> 0]
     /\ cmd.args[5].given =>
          /\ calls = <<>>
          /\ printed # <<>> \/ raised # "none"

McCommands ==
  {"mc_mgrp_create", "mc_node_create", "mc_node_update",
   "mc_set_lag_membership", "mc_dump"}

\* C29 as claimed: in a session without packet replication engine every
\* multicast command ends in the printed user error, issues no remote call
\* and lets no exception leave the command.
C29_PreRequired ==
  (cmd.name \in McCommands /\ pre_type = "None")
  => /\ printed = <<Message("UIn_Error")>>
     /\ calls = <<>>
     /\ raised = "none"

\* the part of C29 the code does keep: the two commands that ask
\* check_has_pre
C29_CheckedCommands ==
  (cmd.name \in {"mc_set_lag_membership", "mc_dump"} /\ pre_type = "None")
  => /\ printed = <<Message("UIn_Error")>>
     /\ calls = <<>>
     /\ raised = "none"

ReloadChecked == {"table_delete", "table_set_timeout"}

\* C28 as claimed: whenever a table command is validated and translated,
\* the local registry was built from the configuration the device is
\* running, never from one it has been given and has not swapped in.
C28_RegistryOfRunningConfig ==
  cmd.name \in ReloadChecked => json_ = dev_running

\* what the code keeps instead: the registry was built from the last
\* configuration the device accepted, swapped in or not
C28_RegistryOfLastAccepted ==
  json_ = IF dev_staged.some THEN dev_staged.doc ELSE dev_running

\* C30: a load_new_config_file that names no file, names a file that is not
\* valid JSON, or whose bm_load_new_config fails, leaves every resource map
\* and the suffix index as they were, and in the first two cases issues no
\* remote call; the registry changes only in a call whose bm_load_new_config
\* was issued and accepted.
C30_FailedReloadKeepsRegistry ==
  [][(cmd.name = "none" /\ cmd'.name = "load_new_config_file")
     => LET file == cmd'.args[1]
        IN /\ (~file.isfile \/ ~file.doc.json_ok)
                => (UNCHANGED regvars /\ calls' = <<>>)
           /\ cmd'.remote # "ok" => UNCHANGED regvars
           /\ regvars' # regvars
                => /\ calls' = <<[op |-> "bm_load_new_config",
                                  args |-> <<file.doc>>]>>
                   /\ cmd'.remote = "ok"]_vars

\* a reload the remote side refused, ended with the registry of the running
\* configuration still in place
C30_Witness ==
  /\ cmd.name = "load_new_config_file"
  /\ cmd.args[1].isfile /\ cmd.args[1].doc.json_ok
  /\ cmd.remote = "InvalidSwapOperation"
  /\ calls # <<>>
  /\ printed = <<Message("InvalidSwapOperation")>>
  /\ json_ # cmd.args[1].doc
  /\ DOMAIN TABLES # {}

====
